---- MODULE Spec2Model ----
(***************************************************************************)
(* Rhythm trainer (src/index.tsx, the App that has latency calibration,    *)
(* lines 693-1543): the notation assembler buildTex of ScoreDisplay and    *)
(* the capture session of App (beat scheduler tick, the midiSignal effect  *)
(* with its note-on quantizer and note-off resolver, stop with its flush   *)
(* and calibration aggregation, onStart, testLatency).                     *)
(*                                                                         *)
(* Time is an integer count of clock units of UnitMs milliseconds; the     *)
(* audio clock and performance.now() are the same clock (the code converts *)
(* one into the other with the offset between the two at schedule time).   *)
(***************************************************************************)
EXTENDS Integers, Sequences, FiniteSets, TLC

VARIABLES
    \* ---- ScoreDisplay.buildTex, one call ----
    asmPc,              \* "idle" | "scan" | "done": position in buildTex
    asmCfg,             \* the props of the call: [beats, value, measures]
    asmNotes,           \* the argument recordedNotes
    currentSixteenth,   \* the scan cursor
    tex,                \* the tokens written to tex, in order
    texMetadata,        \* the parallel metadata array
    \* ---- App: React state (tempoRef, timeSigRef, measuresRef mirror it) ----
    tempo, timeSig, measures, latencyMs, isPlaying, recordedNotes,
    midiSignal,         \* useMidi's single slot: Null or the last raw event
    calibReport,        \* what the calibration last wrote to debugInfo
    \* ---- App: refs ----
    isLatencyTesting, sessionNotesRef, metTimer, activeNotes,
    state,              \* state.current
    \* ---- the host's event loop ----
    now,                \* performance.now(), in ms
    timers,             \* the pending setTimeout callbacks
    effectPending,      \* the midiSignal effect is due to run (a dependency changed)
    \* ---- bookkeeping of the exploration ----
    cfgChanged,         \* a setting was changed since the last session start
    lastDurMs,          \* durMs of the latest note resolved (note-off or flush)
    left,               \* the inputs and clock steps the run may still make
    inputs,             \* the signals the player's instruments can send
    beforeCalib,        \* at the last Test Latency click: the constant, and how
                        \* many notes sessionNotesRef held
    atStart,            \* the settings when the last session started
    replaced,           \* the entry the latest note-on stored took the place of,
                        \* as <<entry>>, or <<>>
    onsets              \* which delivered event each entry and each recorded
                        \* note came from

asmVars == <<asmPc, asmCfg, asmNotes, currentSixteenth, tex, texMetadata>>

appVars == <<tempo, timeSig, measures, latencyMs, isPlaying, recordedNotes,
             midiSignal, calibReport, isLatencyTesting, sessionNotesRef,
             metTimer, activeNotes, state, now, timers, effectPending,
             cfgChanged, lastDurMs, left, inputs, beforeCalib, atStart,
             replaced, onsets>>

vars == <<asmPc, asmCfg, asmNotes, currentSixteenth, tex, texMetadata,
          tempo, timeSig, measures, latencyMs, isPlaying, recordedNotes,
          midiSignal, calibReport, isLatencyTesting, sessionNotesRef,
          metTimer, activeNotes, state, now, timers, effectPending,
          cfgChanged, lastDurMs, left, inputs, beforeCalib, atStart,
          replaced, onsets>>

-----------------------------------------------------------------------------
(* Arithmetic of the host language *)

Abs(x) == IF x < 0 THEN -x ELSE x

Min(a, b) == IF a < b THEN a ELSE b

Max(a, b) == IF a > b THEN a ELSE b

\* Math.trunc(n / d) for d > 0: the quotient cut towards zero.
TruncDiv(n, d) == IF n >= 0 THEN n \div d ELSE -((-n) \div d)

\* Math.round(n / d) for d > 0: the nearest integer, a half rounded up.
RoundDiv(n, d) == (2 * n + d) \div (2 * d)

\* Math.floor(n / d) for d > 0.
FloorDiv(n, d) == n \div d

\* n % d of the host language for d > 0: the remainder has the sign of n.
JsRem(n, d) == IF n >= 0 THEN n % d ELSE -((-n) % d)

-----------------------------------------------------------------------------
(* ScoreDisplay.buildTex *)

\* Bounds of the assembler's inputs.
MaxAsmMeasures == 2
MaxAsmNotes == 2

\* The values the time-signature selects offer.
BeatsChoices == {1, 2, 3, 4, 6, 9, 12}
ValueChoices == {2, 4, 8}

\* The time signatures the assembler is run on: measures of 2, 6, 12 and 16
\* sixteenths.
AsmSigs == {<<1, 8>>, <<3, 8>>, <<3, 4>>, <<4, 4>>}
\* Durations, pitches and deviations of the input notes.
AsmDurs == {1, 3, 17}
AsmPitches == {60}
AsmDiffs == {0}

allowed == <<16, 8, 4, 2, 1>>

\* A table that writes a duration as its number of sixteenths.
DurationAsCount == [d \in {1, 2, 4, 8, 16} |->
                       CASE d = 1 -> "1" [] d = 2 -> "2" [] d = 4 -> "4"
                         [] d = 8 -> "8" [] d = 16 -> "16"]

DURATION_MAP == [d \in {1, 2, 4, 8, 16} |->
                    CASE d = 1 -> "16" [] d = 2 -> "8" [] d = 4 -> "4"
                      [] d = 8 -> "2" [] d = 16 -> "1"]

sixteenthsPerBeatOf(value) == 16 \div value

measureSixteenthsOf(cfg) == cfg.beats * sixteenthsPerBeatOf(cfg.value)

totalSixteenthsOf(cfg) == cfg.measures * measureSixteenthsOf(cfg)

\* The position with the measure folded into the measures of the score.
getNotePosWrapped(cfg, n) ==
    ((n.measure % cfg.measures) * measureSixteenthsOf(cfg))
        + (n.beatIndex * sixteenthsPerBeatOf(cfg.value)) + n.sixteenthIndex

getNotePos(cfg, n) ==
    (n.measure * measureSixteenthsOf(cfg))
        + (n.beatIndex * sixteenthsPerBeatOf(cfg.value)) + n.sixteenthIndex

\* An insertion that puts a note before the notes of its own position: a
\* sort that is not stable.
RECURSIVE InsertBeforeTies(_, _, _)
InsertBeforeTies(cfg, n, s) ==
    IF s = <<>> THEN <<n>>
    ELSE IF getNotePos(cfg, n) <= getNotePos(cfg, Head(s))
         THEN <<n>> \o s
         ELSE <<Head(s)>> \o InsertBeforeTies(cfg, n, Tail(s))

\* [...recordedNotes].sort(by getNotePos): a stable sort.
RECURSIVE InsertByPos(_, _, _)
InsertByPos(cfg, n, s) ==
    IF s = <<>> THEN <<n>>
    ELSE IF getNotePos(cfg, n) < getNotePos(cfg, Head(s))
         THEN <<n>> \o s
         ELSE <<Head(s)>> \o InsertByPos(cfg, n, Tail(s))

RECURSIVE sortedNotesOf(_, _)
sortedNotesOf(cfg, notes) ==
    IF notes = <<>> THEN <<>>
    ELSE InsertByPos(cfg, notes[Len(notes)],
                     sortedNotesOf(cfg, SubSeq(notes, 1, Len(notes) - 1)))

\* Math.abs(getNotePos(n) - currentSixteenth) < 0.1
StartsAt(cfg, n, cur) == 10 * Abs(getNotePos(cfg, n) - cur) < 1

\* The filter keeping the first note found at the cursor only.
firstAtSlot(cfg, notes, cur) ==
    LET found == SelectSeq(sortedNotesOf(cfg, notes),
                           LAMBDA n : StartsAt(cfg, n, cur))
    IN  IF found = <<>> THEN <<>> ELSE <<Head(found)>>

startsAtSlot(cfg, notes, cur) ==
    SelectSeq(sortedNotesOf(cfg, notes), LAMBDA n : StartsAt(cfg, n, cur))

\* The duration of the first note of the group, the others ignored.
FirstDurOf(s) == s[1].durationSixteenths

\* Math.max(...startsAtSlot.map(n => n.durationSixteenths))
RECURSIVE MaxDurOf(_)
MaxDurOf(s) ==
    IF Len(s) = 1 THEN s[1].durationSixteenths
    ELSE Max(s[1].durationSixteenths, MaxDurOf(Tail(s)))

\* The loop taking the first duration that is not below the limit.
RECURSIVE SnapFromAbove(_, _)
SnapFromAbove(i, limit) ==
    IF i > Len(allowed) THEN 1
    ELSE IF allowed[i] >= limit THEN allowed[i] ELSE SnapFromAbove(i + 1, limit)

\* let writeDur = 1; for (const d of allowed) if (d <= limit) { writeDur = d; break }
RECURSIVE SnapFrom(_, _)
SnapFrom(i, limit) ==
    IF i > Len(allowed) THEN 1
    ELSE IF allowed[i] <= limit THEN allowed[i] ELSE SnapFrom(i + 1, limit)

Snap(limit) == SnapFrom(1, limit)

remainingInMeasureOf(cfg, cur) ==
    measureSixteenthsOf(cfg) - (cur % measureSixteenthsOf(cfg))

\* A note never crosses a bar line: Math.min(rawDur, remainingInMeasure).
\* The note duration taken as recorded, the end of the measure ignored.
NoteMaxDurUnclamped(rawDur, remainingInMeasure) == rawDur

NoteMaxDur(rawDur, remainingInMeasure) == Min(rawDur, remainingInMeasure)

\* sortedNotes.find(n => getNotePos(n) > currentSixteenth + 0.1), as a sequence
\* of at most one note.
nextNoteOf(cfg, notes, cur) ==
    LET later == SelectSeq(sortedNotesOf(cfg, notes),
                           LAMBDA n : 10 * getNotePos(cfg, n) > 10 * cur + 1)
    IN  IF later = <<>> THEN <<>> ELSE <<Head(later)>>

\* The gap taken to the end of the measure, the next note ignored.
RestToBar(cfg, notes, cur) == remainingInMeasureOf(cfg, cur)

RestAvailable(cfg, notes, cur) ==
    LET nextNote == nextNoteOf(cfg, notes, cur)
    IN  Min(IF nextNote # <<>> THEN getNotePos(cfg, nextNote[1]) - cur
                               ELSE totalSixteenthsOf(cfg) - cur,
            remainingInMeasureOf(cfg, cur))

\* if (currentSixteenth > 0 && currentSixteenth % measureSixteenths === 0) tex += "| "
BarAfter(cfg, cur) == cur > 0 /\ cur % measureSixteenthsOf(cfg) = 0

pitchesOf(s) == [i \in 1..Len(s) |-> s[i].midi]

\* The notes an assembler call may be handed under cfg: in the first measure
\* or one measure past the configured count.
AsmNoteDomain(cfg) ==
    [midi : AsmPitches, diffMs : AsmDiffs,
     measure : {0, cfg.measures},
     beatIndex : {0, cfg.beats - 1},
     sixteenthIndex : {0, sixteenthsPerBeatOf(cfg.value) - 1},
     durationSixteenths : AsmDurs]

SeqsUpTo(S, n) == UNION {[1..k -> S] : k \in 0..n}

AsmCfgs == {[beats |-> ts[1], value |-> ts[2], measures |-> m] :
                ts \in AsmSigs, m \in 1..MaxAsmMeasures}

\* One pass of the scan loop with a note starting at the cursor.
NoteStep ==
    /\ asmPc = "scan"
    /\ currentSixteenth < totalSixteenthsOf(asmCfg)
    /\ LET slot == startsAtSlot(asmCfg, asmNotes, currentSixteenth)
       IN  /\ Len(slot) > 0
           /\ LET rawDur == MaxDurOf(slot)
                  maxDur == NoteMaxDur(rawDur,
                                remainingInMeasureOf(asmCfg, currentSixteenth))
                  writeDur == Snap(maxDur)
              IN  /\ tex' = Append(tex,
                        [kind |-> IF Len(slot) = 1 THEN "Note" ELSE "Chord",
                         pitches |-> pitchesOf(slot),
                         dur |-> writeDur,
                         rhythm |-> DURATION_MAP[writeDur],
                         barAfter |-> BarAfter(asmCfg, currentSixteenth + writeDur)])
                  /\ texMetadata' = Append(texMetadata, [hits |-> slot])
                  /\ currentSixteenth' = currentSixteenth + writeDur
    /\ UNCHANGED <<asmPc, asmCfg, asmNotes>>

\* One pass of the scan loop with no note at the cursor: a rest.
RestStep ==
    /\ asmPc = "scan"
    /\ currentSixteenth < totalSixteenthsOf(asmCfg)
    /\ Len(startsAtSlot(asmCfg, asmNotes, currentSixteenth)) = 0
    /\ LET writeDur == Snap(RestAvailable(asmCfg, asmNotes, currentSixteenth))
       IN  /\ tex' = Append(tex,
                  [kind |-> "Rest", pitches |-> <<>>, dur |-> writeDur,
                   rhythm |-> DURATION_MAP[writeDur],
                   barAfter |-> BarAfter(asmCfg, currentSixteenth + writeDur)])
           /\ texMetadata' = Append(texMetadata, [hits |-> <<>>])
           /\ currentSixteenth' = currentSixteenth + writeDur
    /\ UNCHANGED <<asmPc, asmCfg, asmNotes>>

\* The loop condition fails: return { tex, texMetadata }.
AsmReturn ==
    /\ asmPc = "scan"
    /\ ~(currentSixteenth < totalSixteenthsOf(asmCfg))
    /\ asmPc' = "done"
    /\ UNCHANGED <<asmCfg, asmNotes, currentSixteenth, tex, texMetadata>>

-----------------------------------------------------------------------------
(* App: constants of the scheduler and the settings explored *)

TickMs == 25              \* setTimeout(tick, 25)
LookaheadMs == 100        \* nextNoteTime < currentTime + 0.1
FirstBeatMs == 100        \* nextNoteTime: currentTime + 0.1 in onStart
StopDelayMs == 500        \* setTimeout(stop, 500)
MaxMeasuresSetting == 32  \* Math.min(32, m + 1)
TestStartDelayMs == 100   \* setTimeout(() => onStart(), 100)
MsPerMinute == 60000      \* (60.0 / tempo) * 1000
OctaveShift == 24         \* rawMidi - 24 for an external device
TestMeasures == 4         \* setMeasures(4) in testLatency
TestBeats == 4            \* setTimeSig({ beats: 4, value: 4 })
TestValue == 4

\* The clock advances in steps of two lookahead-check periods; inputs arrive
\* at these instants.
ClockStepMs == 2 * TickMs

\* Bounds of the exploration: the inputs and the clock steps of one run.
MaxEvents == 2            \* raw note events delivered
MaxClicks == 2            \* clicks on Record / Test Latency
StepsPlay == 16           \* a session of 1/8 into its measure
StepsBar == 28            \* a session that runs to its own end, and 2/8
StepsRestart == 18        \* a session stopped early, then a calibration
StepsCalib == 40          \* a calibration into its first measure
StepsEnd == 30            \* a session past its end, nothing played

\* Settings the controls switch between. The tempo makes the sixteenth a
\* whole number of ms for every beat value.
Tempos == {150}
SessBeats == {1, 2}
SessValues == {2, 8}
StoredLatency == 2 * ClockStepMs   \* a constant an earlier calibration left

\* handleKey: the signal a key of KBD_MAP gives when pressed and released.
KeyDown(midi) == [data |-> <<144, midi, 100>>, source |-> "keyboard"]

KeyUp(midi) == [data |-> <<128, midi, 0>>, source |-> "keyboard"]

\* onMessage: the signal a device message gives, unless it is a system message.
DeviceMessage(data) == [data |-> data, source |-> "midi"]

IsSystemMessage(data) == data[1] >= 240

\* Inputs of the runs: keys 'a' and 's' of the computer keyboard; a device
\* sending note-on, note-on with velocity 0, a control change and the clock.
Keyboard(keys) == {KeyDown(k) : k \in keys} \cup {KeyUp(k) : k \in keys}

Device ==
    {DeviceMessage(d) : d \in {<<144, 72, 100>>, <<144, 72, 0>>, <<176, 64, 127>>,
                               <<248, 0, 0>>}}

Budget(e, c, g, s) == [events |-> e, clicks |-> c, cfg |-> g, steps |-> s]

Setting(b, v, m, l, budget, alphabet) ==
    [timeSig |-> [beats |-> b, value |-> v], measures |-> m, latencyMs |-> l,
     left |-> budget, inputs |-> alphabet]

\* Runs of one session: the settings a run starts from, what it may do and
\* with which inputs.
PlayScenarios ==
    {Setting(1, 8, 1, 0, Budget(MaxEvents, MaxClicks, 0, StepsPlay),
             Keyboard({48, 50})),
     Setting(1, 2, 1, StoredLatency, Budget(MaxEvents, MaxClicks, 0, StepsPlay),
             Keyboard({48}))}
    \cup {Setting(b, 2, 1, StoredLatency, Budget(1, 1, 1, StepsBar), Device) :
             b \in SessBeats}

\* All runs explored: also a session stopped early and followed by a
\* calibration, a calibration or a session of four measures, and clicks
\* around the end of a session in which nothing is played.
Scenarios ==
    PlayScenarios
    \cup {Setting(1, 2, 1, 0, Budget(MaxEvents, MaxClicks + 1, 0, StepsRestart),
                  Keyboard({48}))}
    \cup {Setting(1, 8, TestMeasures, StoredLatency,
                  Budget(MaxEvents, MaxClicks, 0, StepsCalib), Keyboard({48}))}
    \cup {Setting(1, 8, 1, 0, Budget(0, MaxClicks + 1, 0, StepsEnd), {})}

NullSignal == [data |-> <<0, 0, 0>>, timeStamp |-> 0, source |-> "null"]

\* The beat of the initial tempo, whatever the tempo setting.
beatDurMsInitial(tp) == MsPerMinute \div 100

beatDurMsOf(tp) == MsPerMinute \div tp

\* The subdivision taken as a quarter of the beat whatever the beat value.
sixteenthDurMsQuarter(tp, value) == beatDurMsOf(tp) \div 4

sixteenthDurMsOf(tp, value) == beatDurMsOf(tp) \div sixteenthsPerBeatOf(value)

-----------------------------------------------------------------------------
(* activeNotes: a Map keyed by pitch, in insertion order *)

MapHas(m, k) == \E i \in 1..Len(m) : m[i].midi = k

MapGet(m, k) == m[CHOOSE i \in 1..Len(m) : m[i].midi = k]

\* A table that keeps the entry a pitch already has and adds the new one.
MapAdd(m, e) == Append(m, e)

MapSet(m, e) ==
    IF MapHas(m, e.midi)
    THEN [i \in 1..Len(m) |-> IF m[i].midi = e.midi THEN e ELSE m[i]]
    ELSE Append(m, e)

MapDelete(m, k) == SelectSeq(m, LAMBDA e : e.midi # k)

-----------------------------------------------------------------------------
(* The midiSignal effect: classification, note-on quantizer, note-off resolver *)

\* The status byte taken whole, channel bits included.
commandUnmasked(statusByte) == statusByte

commandOf(statusByte) == (statusByte \div 16) * 16      \* statusByte & 0xF0

isNoteOnOf(data) == commandOf(data[1]) = 144 /\ data[3] > 0

isNoteOffOf(data) ==
    commandOf(data[1]) = 128 \/ (commandOf(data[1]) = 144 /\ data[3] = 0)

midiOf(sig) == IF sig.source = "midi" THEN sig.data[2] - OctaveShift ELSE sig.data[2]

\* The search with d <= minDist: of two beats equally near, the later one.
RECURSIVE SearchLastFrom(_, _, _, _, _, _)
SearchLastFrom(bt, beats, perfTime, i, best, minDist) ==
    IF i > Len(bt) THEN best
    ELSE LET idx == i - 1
             d == Abs(bt[i].perfTime - perfTime)
         IN  IF idx < beats
             THEN SearchLastFrom(bt, beats, perfTime, i + 1, best, minDist)
             ELSE IF minDist = -1 \/ d <= minDist
                  THEN SearchLastFrom(bt, beats, perfTime, i + 1, idx - beats, d)
                  ELSE SearchLastFrom(bt, beats, perfTime, i + 1, best, minDist)

bestBeatIdxLastOf(bt, beats, perfTime) ==
    SearchLastFrom(bt, beats, perfTime, 1, -1, -1)

\* state.current.beatTimes.forEach(...): the nearest beat past the intro,
\* as bestBeatIdx; minDist = -1 stands for Infinity.
RECURSIVE SearchFrom(_, _, _, _, _, _)
SearchFrom(bt, beats, perfTime, i, best, minDist) ==
    IF i > Len(bt) THEN best
    ELSE LET idx == i - 1
             d == Abs(bt[i].perfTime - perfTime)
         IN  IF idx < beats
             THEN SearchFrom(bt, beats, perfTime, i + 1, best, minDist)
             ELSE IF minDist = -1 \/ d < minDist
                  THEN SearchFrom(bt, beats, perfTime, i + 1, idx - beats, d)
                  ELSE SearchFrom(bt, beats, perfTime, i + 1, best, minDist)

bestBeatIdxOf(bt, beats, perfTime) == SearchFrom(bt, beats, perfTime, 1, -1, -1)

\* The first while loop alone: the carry without the borrow.
RECURSIVE NormalizeCarryOnly(_, _, _)
NormalizeCarryOnly(fBeatIdx, fSixteenIdx, spb) ==
    IF fSixteenIdx >= spb THEN NormalizeCarryOnly(fBeatIdx + 1, fSixteenIdx - spb, spb)
    ELSE <<fBeatIdx, fSixteenIdx>>

\* The two while loops that normalize the grid position: <<fBeatIdx, fSixteenIdx>>.
RECURSIVE Normalize(_, _, _)
Normalize(fBeatIdx, fSixteenIdx, spb) ==
    IF fSixteenIdx >= spb THEN Normalize(fBeatIdx + 1, fSixteenIdx - spb, spb)
    ELSE IF fSixteenIdx < 0 THEN Normalize(fBeatIdx - 1, fSixteenIdx + spb, spb)
    ELSE <<fBeatIdx, fSixteenIdx>>

\* The entry the quantizer stores for a note-on at perfTime, given bestBeatIdx >= 0.
Quantize(bt, tp, ts, midi, perfTime, bestBeatIdx) ==
    LET targetBeatTime == bt[bestBeatIdx + ts.beats + 1].perfTime
        spb == sixteenthsPerBeatOf(ts.value)
        sixteenthDurMs == sixteenthDurMsOf(tp, ts.value)
        rawOffset == perfTime - targetBeatTime
        sixteenIdxRaw == RoundDiv(rawOffset, sixteenthDurMs)
        f == Normalize(bestBeatIdx, sixteenIdxRaw, spb)
    IN  [midi |-> midi, startTime |-> perfTime,
         mIdx |-> FloorDiv(f[1], ts.beats), bIdx |-> JsRem(f[1], ts.beats),
         sIdx |-> f[2], diffMs |-> rawOffset - (sixteenIdxRaw * sixteenthDurMs)]

\* The quantizer without the test of isRecording.
NoteOnUngated(an, recording, isOn, bt, tp, ts, midi, perfTime) ==
    IF isOn
    THEN LET bestBeatIdx == bestBeatIdxOf(bt, ts.beats, perfTime)
         IN  IF bestBeatIdx >= 0
             THEN MapSet(an, Quantize(bt, tp, ts, midi, perfTime, bestBeatIdx))
             ELSE an
    ELSE an

\* if (state.current.isRecording && isNoteOn) { ... }: the table afterwards.
NoteOn(an, recording, isOn, bt, tp, ts, midi, perfTime) ==
    IF recording /\ isOn
    THEN LET bestBeatIdx == bestBeatIdxOf(bt, ts.beats, perfTime)
         IN  IF bestBeatIdx >= 0
             THEN MapSet(an, Quantize(bt, tp, ts, midi, perfTime, bestBeatIdx))
             ELSE an
    ELSE an

\* The rounded duration without the floor of 1.
durationUnfloored(durMs, sixteenthDurMs) == RoundDiv(durMs, sixteenthDurMs)

durationSixteenthsOf(durMs, sixteenthDurMs) == Max(1, RoundDiv(durMs, sixteenthDurMs))

\* The measure filter without its lower bound.
InMeasuresUpper(mIdx, ms) == mIdx < ms

\* The measure filter of the resolver and of the flush.
InMeasures(mIdx, ms) == mIdx >= 0 /\ mIdx < ms

NewNote(startData, durationSixteenths) ==
    [midi |-> startData.midi, diffMs |-> startData.diffMs,
     measure |-> startData.mIdx, beatIndex |-> startData.bIdx,
     sixteenthIndex |-> startData.sIdx, durationSixteenths |-> durationSixteenths]

\* The resolver without the lookup: a note-off without an entry records a
\* note of one subdivision at the start of the score.
NoteOffUnmatched(an, isOff, tp, ts, ms, midi, perfTime) ==
    IF isOff
    THEN [an |-> MapDelete(an, midi),
          notes |-> <<[midi |-> midi, diffMs |-> 0, measure |-> 0, beatIndex |-> 0,
                       sixteenthIndex |-> 0, durationSixteenths |-> 1]>>,
          durMs |-> <<0>>]
    ELSE [an |-> an, notes |-> <<>>, durMs |-> <<>>]

\* if (isNoteOff) { ... }: the table afterwards, the notes emitted (none or
\* one), and durMs when an entry was resolved.
NoteOff(an, isOff, tp, ts, ms, midi, perfTime) ==
    IF isOff /\ MapHas(an, midi)
    THEN LET startData == MapGet(an, midi)
             durMs == perfTime - startData.startTime
             dur == durationSixteenthsOf(durMs, sixteenthDurMsOf(tp, ts.value))
         IN  [an |-> MapDelete(an, midi),
              notes |-> IF InMeasures(startData.mIdx, ms)
                        THEN <<NewNote(startData, dur)>> ELSE <<>>,
              durMs |-> <<durMs>>]
    ELSE [an |-> an, notes |-> <<>>, durMs |-> <<>>]

-----------------------------------------------------------------------------
(* stop: the flush and the calibration aggregation *)

\* activeNotes.current.forEach(...): the notes flushed, in the table's order.
\* lat is the latencyMs the running stop closed over.
RECURSIVE Flushed(_, _, _, _, _, _)
Flushed(an, t, lat, tp, ts, ms) ==
    IF an = <<>> THEN <<>>
    ELSE LET startData == Head(an)
             endTime == t - lat
             durMs == endTime - startData.startTime
             dur == durationSixteenthsOf(durMs, sixteenthDurMsOf(tp, ts.value))
         IN  (IF InMeasures(startData.mIdx, ms)
              THEN <<NewNote(startData, dur)>> ELSE <<>>)
                 \o Flushed(Tail(an), t, lat, tp, ts, ms)

RECURSIVE SumDiff(_)
SumDiff(notes) == IF notes = <<>> THEN 0 ELSE Head(notes).diffMs + SumDiff(Tail(notes))

\* Math.round(sum / sessionNotesRef.current.length)
newLatencyOf(notes) == RoundDiv(SumDiff(notes), Len(notes))

\* The notes the calibration averages over when stop runs: sessionNotesRef
\* after the flush pushed into it.
CalibNotes(session, flushedNotes) == session \o flushedNotes

CancelTimer(tms, h) == {t \in tms : ~(t.kind = "tick" /\ t.h = h)}

\* durMs of the last note the flush emits, or prev when it emits none.
RECURSIVE LastFlushDurMs(_, _, _, _, _)
LastFlushDurMs(an, t, lat, ms, prev) ==
    IF an = <<>> THEN prev
    ELSE LastFlushDurMs(Tail(an), t, lat, ms,
             IF InMeasures(Head(an).mIdx, ms)
             THEN <<(t - lat) - Head(an).startTime>> ELSE prev)

\* Bookkeeping of the note-ons: slot numbers the event in the slot, origin
\* gives for each pitch of the table the event its entry was made from, and
\* yielded lists, for every note recorded, the event it came from.
NoOnsets == [slot |-> 0, origin |-> {}, yielded |-> <<>>]

OriginOf(origin, midi) ==
    IF \E o \in origin : o.midi = midi
    THEN (CHOOSE o \in origin : o.midi = midi).id ELSE 0

RECURSIVE FlushedFrom(_, _, _)
FlushedFrom(an, ms, origin) ==
    IF an = <<>> THEN <<>>
    ELSE (IF InMeasures(Head(an).mIdx, ms)
          THEN <<OriginOf(origin, Head(an).midi)>> ELSE <<>>)
             \o FlushedFrom(Tail(an), ms, origin)

OnsetsAfterStop ==
    [onsets EXCEPT !.origin = {},
                   !.yielded = @ \o FlushedFrom(activeNotes, measures,
                                                 onsets.origin)]

\* stop(), run by a closure that captured latencyMs = lat, with tms pending:
\* what it leaves in the refs and the React state.
Stop(lat, tms) ==
    LET flushedNotes == Flushed(activeNotes, now, lat, tempo, timeSig, measures)
        calib == CalibNotes(sessionNotesRef, flushedNotes)
    IN  [timers |-> IF metTimer # 0 THEN CancelTimer(tms, metTimer) ELSE tms,
         metTimer |-> 0,
         sessionNotesRef |-> calib,
         recordedNotes |-> IF Len(flushedNotes) > 0 /\ ~isLatencyTesting
                           THEN recordedNotes \o flushedNotes ELSE recordedNotes,
         activeNotes |-> <<>>,
         latencyMs |-> IF isLatencyTesting /\ Len(calib) > 0
                       THEN newLatencyOf(calib) ELSE latencyMs,
         calibReport |-> IF isLatencyTesting
                         THEN (IF Len(calib) > 0 THEN "complete" ELSE "failed")
                         ELSE calibReport,
         isLatencyTesting |-> FALSE,
         isPlaying |-> FALSE,
         state |-> [state EXCEPT !.isRecording = FALSE],
         lastDurMs |-> LastFlushDurMs(activeNotes, now, lat, measures, lastDurMs)]

\* The midiSignal effect runs again when one of its dependencies changed.
Rerun(changed) == effectPending \/ (changed /\ midiSignal.source # "null")

\* The step that runs stop() and nothing else.
StopStep(lat, tms) ==
    LET r == Stop(lat, tms)
    IN  /\ timers' = r.timers
        /\ metTimer' = r.metTimer
        /\ sessionNotesRef' = r.sessionNotesRef
        /\ recordedNotes' = r.recordedNotes
        /\ activeNotes' = r.activeNotes
        /\ latencyMs' = r.latencyMs
        /\ calibReport' = r.calibReport
        /\ isLatencyTesting' = r.isLatencyTesting
        /\ isPlaying' = r.isPlaying
        /\ state' = r.state
        /\ lastDurMs' = r.lastDurMs
        /\ effectPending' = Rerun(r.latencyMs # latencyMs)
        /\ onsets' = OnsetsAfterStop
        /\ UNCHANGED <<tempo, timeSig, measures, midiSignal, cfgChanged,
                       beforeCalib, atStart, replaced>>

-----------------------------------------------------------------------------
(* tick: the lookahead check *)

BeatTimer(due) == [kind |-> "beat", due |-> due, h |-> 0, lat |-> 0, playing |-> FALSE]

\* The loop with the end test measureCount >= measures: the intro measure
\* not counted.
RECURSIVE TickLoopEarly(_, _, _)
TickLoopEarly(st, cbs, t) ==
    IF ~(st.nextNoteTime < t + LookaheadMs)
    THEN [st |-> st, cbs |-> cbs, ended |-> FALSE]
    ELSE IF st.measureCount >= measures
    THEN [st |-> st, cbs |-> cbs, ended |-> TRUE]
    ELSE LET time == st.nextNoteTime
             delayMs == time - t
             beat1 == st.currentBeat + 1
             wrap == beat1 >= timeSig.beats
             st2 == [st EXCEPT
                       !.beatTimes = Append(@, [audioTime |-> time,
                                                perfTime |-> t + delayMs]),
                       !.nextNoteTime = @ + beatDurMsOf(tempo),
                       !.currentBeat = IF wrap THEN 0 ELSE beat1,
                       !.measureCount = IF wrap THEN @ + 1 ELSE @]
         IN  TickLoopEarly(st2, cbs \cup {BeatTimer(t + Max(0, delayMs))}, t)

\* The loop with the end test measureCount > measures + 1: one measure more.
RECURSIVE TickLoopLate(_, _, _)
TickLoopLate(st, cbs, t) ==
    IF ~(st.nextNoteTime < t + LookaheadMs)
    THEN [st |-> st, cbs |-> cbs, ended |-> FALSE]
    ELSE IF st.measureCount > measures + 1
    THEN [st |-> st, cbs |-> cbs, ended |-> TRUE]
    ELSE LET time == st.nextNoteTime
             delayMs == time - t
             beat1 == st.currentBeat + 1
             wrap == beat1 >= timeSig.beats
             st2 == [st EXCEPT
                       !.beatTimes = Append(@, [audioTime |-> time,
                                                perfTime |-> t + delayMs]),
                       !.nextNoteTime = @ + beatDurMsOf(tempo),
                       !.currentBeat = IF wrap THEN 0 ELSE beat1,
                       !.measureCount = IF wrap THEN @ + 1 ELSE @]
         IN  TickLoopLate(st2, cbs \cup {BeatTimer(t + Max(0, delayMs))}, t)

\* The while loop of tick at clock t: the state afterwards, the beat callbacks
\* it scheduled, and whether it left through the session-end return.
RECURSIVE TickLoop(_, _, _)
TickLoop(st, cbs, t) ==
    IF ~(st.nextNoteTime < t + LookaheadMs)
    THEN [st |-> st, cbs |-> cbs, ended |-> FALSE]
    ELSE IF st.measureCount >= measures + 1
    THEN [st |-> st, cbs |-> cbs, ended |-> TRUE]
    ELSE LET time == st.nextNoteTime
             delayMs == time - t
             beat1 == st.currentBeat + 1
             wrap == beat1 >= timeSig.beats
             st2 == [st EXCEPT
                       !.beatTimes = Append(@, [audioTime |-> time,
                                                perfTime |-> t + delayMs]),
                       !.nextNoteTime = @ + beatDurMsOf(tempo),
                       !.currentBeat = IF wrap THEN 0 ELSE beat1,
                       !.measureCount = IF wrap THEN @ + 1 ELSE @]
         IN  TickLoop(st2, cbs \cup {BeatTimer(t + Max(0, delayMs))}, t)

\* The handle setTimeout returns: one no pending lookahead check holds.
FreshHandle(tms) ==
    CHOOSE h \in 1..(Cardinality(tms) + 1) :
        /\ \A t \in tms : ~(t.kind = "tick" /\ t.h = h)
        /\ \A g \in 1..(h - 1) : \E t \in tms : t.kind = "tick" /\ t.h = g

\* tick() on state st with tms pending, its stop having captured lat:
\* the state, the pending callbacks and metTimer.current afterwards.
Tick(st, tms, met, lat) ==
    LET r == TickLoop(st, {}, now)
        h == FreshHandle(tms)
    IN  IF r.ended
        THEN [st |-> r.st,
              timers |-> tms \cup r.cbs \cup
                  {[kind |-> "stop", due |-> now + StopDelayMs, h |-> 0,
                    lat |-> lat, playing |-> FALSE]},
              metTimer |-> met]
        ELSE [st |-> r.st,
              timers |-> tms \cup r.cbs \cup
                  {[kind |-> "tick", due |-> now + TickMs, h |-> h,
                    lat |-> lat, playing |-> FALSE]},
              metTimer |-> h]

\* The beat callback's arming test.
Arms(st, ts) == Len(st.beatTimes) = ts.beats + 1

-----------------------------------------------------------------------------
(* onStart *)

\* onStart() of a render in which isPlaying = playing and latencyMs = lat.
OnStart(playing, lat, tms) ==
    IF playing
    THEN StopStep(lat, tms)
    ELSE LET st0 == [nextNoteTime |-> now + FirstBeatMs, currentBeat |-> 0,
                     measureCount |-> 0, isRecording |-> FALSE, beatTimes |-> <<>>]
             r == Tick(st0, tms, metTimer, lat)
         IN  /\ state' = r.st
             /\ timers' = r.timers
             /\ metTimer' = r.metTimer
             /\ recordedNotes' = <<>>
             /\ sessionNotesRef' = <<>>
             /\ isPlaying' = TRUE
             /\ cfgChanged' = FALSE
             /\ beforeCalib' = [beforeCalib EXCEPT !.notes = 0]
             /\ atStart' = [tempo |-> tempo, timeSig |-> timeSig,
                            measures |-> measures]
             /\ UNCHANGED <<tempo, timeSig, measures, latencyMs, midiSignal,
                            calibReport, isLatencyTesting, activeNotes,
                            effectPending, lastDurMs, replaced, onsets>>

-----------------------------------------------------------------------------
(* Actions *)

\* A listener receives an input: setMidiSignal, unless onMessage filters it.
Deliver(ev) ==
    /\ left.events > 0
    /\ IF ev.source = "midi" /\ IsSystemMessage(ev.data)
       THEN UNCHANGED <<midiSignal, effectPending, onsets>>
       ELSE /\ midiSignal' = [data |-> ev.data, timeStamp |-> now,
                              source |-> ev.source]
            /\ effectPending' = TRUE
            /\ onsets' = [onsets EXCEPT !.slot = left.events]
    /\ left' = [left EXCEPT !.events = @ - 1]
    /\ UNCHANGED <<tempo, timeSig, measures, latencyMs, isPlaying, recordedNotes,
                   calibReport, isLatencyTesting, sessionNotesRef, metTimer,
                   activeNotes, state, now, timers, cfgChanged, lastDurMs, inputs,
                   beforeCalib, atStart,
                   replaced>>

\* The midiSignal effect runs on the current slot.
Effect ==
    /\ effectPending
    /\ midiSignal.source # "null"
    /\ LET midi == midiOf(midiSignal)
           perfTime == midiSignal.timeStamp - latencyMs
           an1 == NoteOn(activeNotes, state.isRecording, isNoteOnOf(midiSignal.data),
                         state.beatTimes, tempo, timeSig, midi, perfTime)
           off == NoteOff(an1, isNoteOffOf(midiSignal.data), tempo, timeSig,
                          measures, midi, perfTime)
       IN  /\ activeNotes' = off.an
           /\ recordedNotes' = IF ~isLatencyTesting
                               THEN recordedNotes \o off.notes ELSE recordedNotes
           /\ sessionNotesRef' = sessionNotesRef \o off.notes
           /\ lastDurMs' = IF off.notes = <<>> THEN lastDurMs ELSE off.durMs
           /\ replaced' = IF an1 = activeNotes THEN replaced
                          ELSE IF MapHas(activeNotes, midi)
                               THEN <<MapGet(activeNotes, midi)>> ELSE <<>>
           /\ LET made == IF an1 = activeNotes THEN onsets.origin
                           ELSE {o \in onsets.origin : o.midi # midi}
                                   \cup {[midi |-> midi, id |-> onsets.slot]}
              IN  onsets' =
                     [onsets EXCEPT
                        !.origin = {o \in made : MapHas(off.an, o.midi)},
                        !.yielded = IF off.notes = <<>> THEN @
                                    ELSE Append(@, OriginOf(made, midi))]
    /\ effectPending' = FALSE
    /\ UNCHANGED <<tempo, timeSig, measures, latencyMs, isPlaying, midiSignal,
                   calibReport, isLatencyTesting, metTimer, state, now, timers,
                   cfgChanged, left, inputs, beforeCalib, atStart>>

Due(t) == t.due <= now

\* A pending lookahead check fires.
TickFire(t) ==
    /\ t \in timers /\ t.kind = "tick" /\ Due(t)
    /\ LET r == Tick(state, timers \ {t}, IF metTimer = t.h THEN 0 ELSE metTimer, t.lat)
       IN  /\ state' = r.st
           /\ timers' = r.timers
           /\ metTimer' = r.metTimer
    /\ UNCHANGED <<tempo, timeSig, measures, latencyMs, isPlaying, recordedNotes,
                   midiSignal, calibReport, isLatencyTesting, sessionNotesRef,
                   activeNotes, now, effectPending, cfgChanged, lastDurMs, left,
                   inputs, beforeCalib, atStart,
                   replaced, onsets>>

\* A beat's delayed callback fires: recording is armed after the intro.
BeatFire(t) ==
    /\ t \in timers /\ t.kind = "beat" /\ Due(t)
    /\ timers' = timers \ {t}
    /\ state' = IF Arms(state, timeSig)
                THEN [state EXCEPT !.isRecording = TRUE] ELSE state
    /\ UNCHANGED <<tempo, timeSig, measures, latencyMs, isPlaying, recordedNotes,
                   midiSignal, calibReport, isLatencyTesting, sessionNotesRef,
                   metTimer, activeNotes, now, effectPending, cfgChanged,
                   lastDurMs, left, inputs, beforeCalib, atStart,
                   replaced, onsets>>

\* The deferred stop of a session's end fires.
StopFire(t) ==
    /\ t \in timers /\ t.kind = "stop" /\ Due(t)
    /\ StopStep(t.lat, timers \ {t})
    /\ UNCHANGED <<now, left, inputs>>

\* The start that testLatency deferred fires.
StartFire(t) ==
    /\ t \in timers /\ t.kind = "start" /\ Due(t)
    /\ OnStart(t.playing, t.lat, timers \ {t})
    /\ UNCHANGED <<now, left, inputs>>

\* A click on the Record button: onStart of the current render.
ClickRecord ==
    /\ left.clicks > 0
    /\ ~effectPending
    /\ OnStart(isPlaying, latencyMs, timers)
    /\ left' = [left EXCEPT !.clicks = @ - 1]
    /\ UNCHANGED <<now, inputs>>

\* A click on Test Latency: testLatency of the current render. The deferred
\* onStart is the one of this render, with its isPlaying and latencyMs.
ClickTestLatency ==
    /\ left.clicks > 0
    /\ ~effectPending
    /\ LET r == IF isPlaying THEN Stop(latencyMs, timers)
                ELSE [timers |-> timers, metTimer |-> metTimer,
                      sessionNotesRef |-> sessionNotesRef,
                      recordedNotes |-> recordedNotes,
                      activeNotes |-> activeNotes, latencyMs |-> latencyMs,
                      calibReport |-> calibReport,
                      isLatencyTesting |-> isLatencyTesting,
                      isPlaying |-> isPlaying, state |-> state,
                      lastDurMs |-> lastDurMs]
           changed == measures # TestMeasures \/ timeSig.beats # TestBeats
                         \/ timeSig.value # TestValue
       IN  /\ timers' = r.timers \cup
                 {[kind |-> "start", due |-> now + TestStartDelayMs, h |-> 0,
                   lat |-> latencyMs, playing |-> isPlaying]}
           /\ metTimer' = r.metTimer
           /\ sessionNotesRef' = r.sessionNotesRef
           /\ recordedNotes' = r.recordedNotes
           /\ activeNotes' = r.activeNotes
           /\ isPlaying' = r.isPlaying
           /\ state' = r.state
           /\ lastDurMs' = r.lastDurMs
           /\ measures' = TestMeasures
           /\ timeSig' = [beats |-> TestBeats, value |-> TestValue]
           /\ latencyMs' = 0
           /\ isLatencyTesting' = TRUE
           /\ calibReport' = "starting"
           /\ effectPending' = Rerun(changed \/ latencyMs # 0)
           /\ cfgChanged' = (cfgChanged \/ changed)
           /\ beforeCalib' = [latencyMs |-> latencyMs,
                              notes |-> Len(r.sessionNotesRef)]
           /\ onsets' = IF isPlaying THEN OnsetsAfterStop ELSE onsets
    /\ left' = [left EXCEPT !.clicks = @ - 1]
    /\ UNCHANGED <<tempo, midiSignal, now, inputs, atStart, replaced>>

\* The settings controls: time-signature selects, measures and tempo buttons.
SetBeats(b) ==
    /\ left.cfg > 0
    /\ ~effectPending
    /\ b # timeSig.beats
    /\ timeSig' = [timeSig EXCEPT !.beats = b]
    /\ effectPending' = Rerun(TRUE)
    /\ cfgChanged' = TRUE
    /\ left' = [left EXCEPT !.cfg = @ - 1]
    /\ UNCHANGED <<tempo, measures, latencyMs, isPlaying, recordedNotes,
                   midiSignal, calibReport, isLatencyTesting, sessionNotesRef,
                   metTimer, activeNotes, state, now, timers, lastDurMs, inputs,
                   beforeCalib, atStart,
                   replaced, onsets>>

SetValue(v) ==
    /\ left.cfg > 0
    /\ ~effectPending
    /\ v # timeSig.value
    /\ timeSig' = [timeSig EXCEPT !.value = v]
    /\ effectPending' = Rerun(TRUE)
    /\ cfgChanged' = TRUE
    /\ left' = [left EXCEPT !.cfg = @ - 1]
    /\ UNCHANGED <<tempo, measures, latencyMs, isPlaying, recordedNotes,
                   midiSignal, calibReport, isLatencyTesting, sessionNotesRef,
                   metTimer, activeNotes, state, now, timers, lastDurMs, inputs,
                   beforeCalib, atStart,
                   replaced, onsets>>

\* setMeasures(m => Math.max(1, m - 1)) and setMeasures(m => Math.min(32, m + 1)).
SetMeasures(m) ==
    /\ left.cfg > 0
    /\ ~effectPending
    /\ m # measures
    /\ m \in {Max(1, measures - 1), Min(MaxMeasuresSetting, measures + 1)}
    /\ measures' = m
    /\ effectPending' = Rerun(TRUE)
    /\ cfgChanged' = TRUE
    /\ left' = [left EXCEPT !.cfg = @ - 1]
    /\ UNCHANGED <<tempo, timeSig, latencyMs, isPlaying, recordedNotes,
                   midiSignal, calibReport, isLatencyTesting, sessionNotesRef,
                   metTimer, activeNotes, state, now, timers, lastDurMs, inputs,
                   beforeCalib, atStart,
                   replaced, onsets>>

\* Time passes: one clock step, once every callback that is due has run and
\* the pending effect has run. The
\* clock is followed only while a callback is pending or recording is armed.
Advance ==
    /\ left.steps > 0
    /\ ~effectPending
    /\ timers # {} \/ state.isRecording
    /\ \A t \in timers : ~Due(t)
    /\ now' = now + ClockStepMs
    /\ left' = [left EXCEPT !.steps = @ - 1]
    /\ UNCHANGED <<tempo, timeSig, measures, latencyMs, isPlaying, recordedNotes,
                   midiSignal, calibReport, isLatencyTesting, sessionNotesRef,
                   metTimer, activeNotes, state, timers, effectPending,
                   cfgChanged, lastDurMs, inputs, beforeCalib, atStart,
                   replaced, onsets>>

AppIdle ==
    /\ tempo = 100
    /\ timeSig = [beats |-> 4, value |-> 4]
    /\ measures = 4
    /\ latencyMs = 0
    /\ isPlaying = FALSE
    /\ recordedNotes = <<>>
    /\ midiSignal = NullSignal
    /\ calibReport = "none"
    /\ isLatencyTesting = FALSE
    /\ sessionNotesRef = <<>>
    /\ metTimer = 0
    /\ activeNotes = <<>>
    /\ state = [nextNoteTime |-> 0, currentBeat |-> 0, measureCount |-> 0,
                isRecording |-> FALSE, beatTimes |-> <<>>]
    /\ now = 0
    /\ timers = {}
    /\ effectPending = FALSE
    /\ cfgChanged = FALSE
    /\ lastDurMs = <<>>
    /\ beforeCalib = [latencyMs |-> 0, notes |-> 0]
    /\ atStart = [tempo |-> 100, timeSig |-> [beats |-> 4, value |-> 4],
                  measures |-> 4]
    /\ replaced = <<>>
    /\ onsets = NoOnsets
    /\ left = Budget(0, 0, 0, 0)
    /\ inputs = {}

AsmIdle ==
    /\ asmPc = "idle"
    /\ asmCfg = [beats |-> 4, value |-> 4, measures |-> 4]
    /\ asmNotes = <<>>
    /\ currentSixteenth = 0
    /\ tex = <<>>
    /\ texMetadata = <<>>

\* The App after construction, with settings the controls (and an earlier
\* calibration) can have produced, for a run of one of the scenarios.
InitWith(tempos, scenarios) ==
    /\ AsmIdle
    /\ tempo \in tempos
    /\ \E sc \in scenarios :
           /\ timeSig = sc.timeSig
           /\ measures = sc.measures
           /\ latencyMs = sc.latencyMs
           /\ left = sc.left
           /\ inputs = sc.inputs
    /\ isPlaying = FALSE
    /\ recordedNotes = <<>>
    /\ midiSignal = NullSignal
    /\ calibReport = "none"
    /\ isLatencyTesting = FALSE
    /\ sessionNotesRef = <<>>
    /\ metTimer = 0
    /\ activeNotes = <<>>
    /\ state = [nextNoteTime |-> 0, currentBeat |-> 0, measureCount |-> 0,
                isRecording |-> FALSE, beatTimes |-> <<>>]
    /\ now = 0
    /\ timers = {}
    /\ effectPending = FALSE
    /\ cfgChanged = FALSE
    /\ lastDurMs = <<>>
    /\ beforeCalib = [latencyMs |-> 0, notes |-> 0]
    /\ atStart = [tempo |-> tempo, timeSig |-> timeSig, measures |-> measures]
    /\ replaced = <<>>
    /\ onsets = NoOnsets

InitFrom(scenarios) == InitWith(Tempos, scenarios)

Init == InitFrom(Scenarios)

InitPlay == InitFrom(PlayScenarios)

Next ==
    \/ (\E ev \in inputs : Deliver(ev)) /\ UNCHANGED asmVars
    \/ Effect /\ UNCHANGED asmVars
    \/ (\E t \in timers : TickFire(t)) /\ UNCHANGED asmVars
    \/ (\E t \in timers : BeatFire(t)) /\ UNCHANGED asmVars
    \/ (\E t \in timers : StopFire(t)) /\ UNCHANGED asmVars
    \/ (\E t \in timers : StartFire(t)) /\ UNCHANGED asmVars
    \/ ClickRecord /\ UNCHANGED asmVars
    \/ ClickTestLatency /\ UNCHANGED asmVars
    \/ (\E b \in SessBeats : SetBeats(b)) /\ UNCHANGED asmVars
    \/ (\E v \in SessValues : SetValue(v)) /\ UNCHANGED asmVars
    \/ (\E m \in 1..MaxMeasuresSetting : SetMeasures(m)) /\ UNCHANGED asmVars
    \/ Advance /\ UNCHANGED asmVars

Spec == Init /\ [][Next]_vars

SpecPlay == InitPlay /\ [][Next]_vars

\* Runs of one session in which a key is struck again while it is held, and
\* runs with a device that sends on two channels: note-on and note-off of
\* channels 1 and 2, note-on with velocity 0, polyphonic aftertouch and
\* active sensing.
RepeatEvents == 3

ChannelDevice ==
    {DeviceMessage(d) : d \in {<<144, 72, 100>>, <<145, 72, 100>>, <<145, 72, 0>>,
                               <<128, 72, 0>>, <<129, 72, 64>>, <<160, 72, 50>>,
                               <<254, 0, 0>>}}

KeysScenarios ==
    {Setting(1, 8, 1, 0, Budget(RepeatEvents, 1, 0, StepsPlay), Keyboard({48})),
     Setting(1, 2, 1, StoredLatency, Budget(RepeatEvents, 1, 0, StepsPlay),
             Keyboard({48})),
     Setting(1, 8, 1, 0, Budget(MaxEvents, 1, 0, StepsPlay), ChannelDevice)}

InitKeys == InitFrom(PlayScenarios \cup KeysScenarios)

SpecKeys == InitKeys /\ [][Next]_vars

\* Runs started from either of two tempo settings, the initial one among
\* them: sessions and calibrations with nothing played, up to the end of a
\* session of 1/8; and the start of a session with a key and the controls.
StepsTempo == 36
StepsKey == 12
CalibTempos == {100, 150}

TempoScenarios ==
    {Setting(1, 8, 1, StoredLatency, Budget(0, MaxClicks, 0, StepsTempo), {}),
     Setting(1, 8, 1, StoredLatency, Budget(1, 1, 1, StepsKey), Keyboard({48}))}

InitTempo == InitWith(CalibTempos, TempoScenarios)

SpecTempo == InitTempo /\ [][Next]_vars

\* Runs for the progress of a session: a session of 2/2 that may run to its
\* end with one change of a setting on the way, and short runs with a key
\* and Test Latency. The host runs every callback that is due, runs the
\* effect when it is due and lets time pass: the handlers are weakly fair.
StepsArm == 46
StepsArmKey == 10

ArmScenarios ==
    {Setting(2, 2, 1, 0, Budget(0, 1, 1, StepsArm), {}),
     Setting(1, 8, 1, 0, Budget(1, MaxClicks, 0, StepsArmKey), Keyboard({48}))}

InitArm == InitFrom(ArmScenarios)

Handlers ==
    /\ \/ Effect
       \/ \E t \in timers : TickFire(t)
       \/ \E t \in timers : BeatFire(t)
       \/ \E t \in timers : StopFire(t)
       \/ \E t \in timers : StartFire(t)
       \/ Advance
    /\ UNCHANGED asmVars

SpecArm == InitArm /\ [][Next]_vars /\ WF_vars(Handlers)

\* Runs of a session of two measures to its own end, with one key pressed
\* and released on the way, without and with a latency constant; and short
\* runs with clicks and a change of a setting.
StepsLast == 36
StepsLastKey == 8

LastScenarios ==
    {Setting(1, 8, 2, l, Budget(MaxEvents, 1, 0, StepsLast), Keyboard({48})) :
        l \in {0, StoredLatency}}
    \cup {Setting(1, 8, 2, 0, Budget(1, MaxClicks, 1, StepsLastKey),
                  Keyboard({48}))}

InitLast == InitFrom(LastScenarios)

SpecLast == InitLast /\ [][Next]_vars

InitAsm ==
    /\ AppIdle
    /\ asmPc = "scan"
    /\ asmCfg \in AsmCfgs
    /\ asmNotes \in SeqsUpTo(AsmNoteDomain(asmCfg), MaxAsmNotes)
    /\ currentSixteenth = 0
    /\ tex = <<>>
    /\ texMetadata = <<>>

NextAsm == (NoteStep \/ RestStep \/ AsmReturn) /\ UNCHANGED appVars

SpecAsm == InitAsm /\ [][NextAsm]_vars

\* The call runs to its return: the loop is not suspended.
SpecAsmRun == InitAsm /\ [][NextAsm]_vars /\ WF_vars(NextAsm)

\* buildTex called on notes played together: two keys, each with its own
\* deviation, on the beats of measures of 2/8.
MaxChordMeasures == 1
MaxChordNotes == 3

ChordPlayed == {[midi |-> 60, diffMs |-> -10], [midi |-> 64, diffMs |-> 20]}
ChordDurs == {1, 2}

ChordCfgs == {[beats |-> 2, value |-> 8, measures |-> m] :
                 m \in 1..MaxChordMeasures}

ChordNoteDomain(cfg) ==
    {[midi |-> p.midi, diffMs |-> p.diffMs, measure |-> m, beatIndex |-> b,
      sixteenthIndex |-> 0, durationSixteenths |-> d] :
        p \in ChordPlayed, m \in 0..(cfg.measures - 1),
        b \in 0..(cfg.beats - 1), d \in ChordDurs}

InitChord ==
    /\ AppIdle
    /\ asmPc = "scan"
    /\ asmCfg \in ChordCfgs
    /\ asmNotes \in SeqsUpTo(ChordNoteDomain(asmCfg), MaxChordNotes)
    /\ currentSixteenth = 0
    /\ tex = <<>>
    /\ texMetadata = <<>>

SpecChord == InitChord /\ [][NextAsm]_vars

\* The score of a session: App hands recordedNotes and the settings to
\* ScoreDisplay, whose effect calls buildTex(notes) when they changed. The
\* call is synchronous: no handler runs until it has returned. A call on
\* the notes and settings of the previous call writes the same score again
\* and is not followed.
RenderDue ==
    /\ asmPc # "scan"
    /\ \/ asmPc = "idle"
       \/ asmNotes # recordedNotes
       \/ asmCfg # [beats |-> timeSig.beats, value |-> timeSig.value,
                    measures |-> measures]

Render ==
    /\ RenderDue
    /\ asmPc' = "scan"
    /\ asmCfg' = [beats |-> timeSig.beats, value |-> timeSig.value,
                  measures |-> measures]
    /\ asmNotes' = recordedNotes
    /\ currentSixteenth' = 0
    /\ tex' = <<>>
    /\ texMetadata' = <<>>
    /\ UNCHANGED appVars

\* One session of one measure of 4/4 at tempo 120 with no latency constant:
\* one click on Record, one key pressed and released.
ScoreTempos == {120}
NoteEvents == 2           \* the press and the release of the key
StepsScore == 94          \* the intro, the measure and the deferred stop

InitScore ==
    /\ AsmIdle
    /\ tempo \in ScoreTempos
    /\ timeSig = [beats |-> 4, value |-> 4]
    /\ measures = 1
    /\ latencyMs = 0
    /\ left = Budget(NoteEvents, 1, 0, StepsScore)
    /\ inputs = Keyboard({48})
    /\ isPlaying = FALSE
    /\ recordedNotes = <<>>
    /\ midiSignal = NullSignal
    /\ calibReport = "none"
    /\ isLatencyTesting = FALSE
    /\ sessionNotesRef = <<>>
    /\ metTimer = 0
    /\ activeNotes = <<>>
    /\ state = [nextNoteTime |-> 0, currentBeat |-> 0, measureCount |-> 0,
                isRecording |-> FALSE, beatTimes |-> <<>>]
    /\ now = 0
    /\ timers = {}
    /\ effectPending = FALSE
    /\ cfgChanged = FALSE
    /\ lastDurMs = <<>>
    /\ beforeCalib = [latencyMs |-> 0, notes |-> 0]
    /\ atStart = [tempo |-> tempo, timeSig |-> timeSig, measures |-> measures]
    /\ replaced = <<>>
    /\ onsets = NoOnsets

HandlersMayRun == asmPc # "scan" /\ ~RenderDue

NextScore ==
    \/ Render
    \/ NoteStep /\ UNCHANGED appVars
    \/ RestStep /\ UNCHANGED appVars
    \/ AsmReturn /\ UNCHANGED appVars
    \/ HandlersMayRun /\ (\E ev \in inputs : Deliver(ev)) /\ UNCHANGED asmVars
    \/ HandlersMayRun /\ Effect /\ UNCHANGED asmVars
    \/ HandlersMayRun /\ (\E t \in timers : TickFire(t)) /\ UNCHANGED asmVars
    \/ HandlersMayRun /\ (\E t \in timers : BeatFire(t)) /\ UNCHANGED asmVars
    \/ HandlersMayRun /\ (\E t \in timers : StopFire(t)) /\ UNCHANGED asmVars
    \/ HandlersMayRun /\ ClickRecord /\ UNCHANGED asmVars
    \/ HandlersMayRun /\ Advance /\ UNCHANGED asmVars

SpecScore == InitScore /\ [][NextScore]_vars

-----------------------------------------------------------------------------
(* Properties of buildTex *)

\* The cursor at which token i was written: the durations before it.
RECURSIVE TokenStart(_, _)
TokenStart(toks, i) ==
    IF i <= 1 THEN 0 ELSE TokenStart(toks, i - 1) + toks[i - 1].dur

RECURSIVE SumDurIn(_, _, _, _)
SumDurIn(toks, i, lo, hi) ==
    IF i > Len(toks) THEN 0
    ELSE (IF TokenStart(toks, i) >= lo /\ TokenStart(toks, i) < hi
          THEN toks[i].dur ELSE 0) + SumDurIn(toks, i + 1, lo, hi)

NoTokenCrossesBar ==
    \A i \in 1..Len(tex) :
        LET s == TokenStart(tex, i)
            ms == measureSixteenthsOf(asmCfg)
        IN  s \div ms = (s + tex[i].dur - 1) \div ms

\* C1: bar closure. No token written by buildTex crosses a bar line, and when
\* buildTex returns the token durations inside each measure
\* 0..measures-1 sum to exactly measureSixteenths, the cursor ending on
\* measures * measureSixteenths.
C1_BarClosure ==
    asmPc # "idle" =>
        /\ NoTokenCrossesBar
        /\ currentSixteenth = TokenStart(tex, Len(tex) + 1)
        /\ asmPc = "done" =>
              /\ currentSixteenth = totalSixteenthsOf(asmCfg)
              /\ \A m \in 0..(asmCfg.measures - 1) :
                    SumDurIn(tex, 1, m * measureSixteenthsOf(asmCfg),
                             (m + 1) * measureSixteenthsOf(asmCfg))
                        = measureSixteenthsOf(asmCfg)

\* A finished call in which a note held past the end of its measure was
\* written, shortened to what was left of the measure.
C1_Witness ==
    /\ asmPc = "done"
    /\ \E i \in 1..Len(tex) :
          /\ tex[i].kind = "Note"
          /\ texMetadata[i].hits[1].durationSixteenths
                > remainingInMeasureOf(asmCfg, TokenStart(tex, i))
          /\ tex[i].dur < texMetadata[i].hits[1].durationSixteenths

-----------------------------------------------------------------------------
(* Properties of the recording session *)

\* The step in which the midiSignal effect runs on the slot.
EffectRuns == effectPending /\ ~effectPending'

slotIsNoteOn ==
    /\ midiSignal.source # "null"
    /\ (midiSignal.data[1] \div 16) = 9
    /\ midiSignal.data[3] > 0

slotIsNoteOff ==
    /\ midiSignal.source # "null"
    /\ \/ (midiSignal.data[1] \div 16) = 8
       \/ (midiSignal.data[1] \div 16) = 9 /\ midiSignal.data[3] = 0

slotPitch ==
    IF midiSignal.source = "midi" THEN midiSignal.data[2] - 24 ELSE midiSignal.data[2]

\* The compensated timestamp of the slot.
slotTime == midiSignal.timeStamp - latencyMs

beatMs == 60000 \div tempo

subdivisionsPerBeat == 16 \div timeSig.value

subdivisionMs == beatMs \div subdivisionsPerBeat

EvenTimeline ==
    \A i \in 2..Len(state.beatTimes) :
        state.beatTimes[i].perfTime - state.beatTimes[i - 1].perfTime = beatMs

\* The time of the first beat after the intro, when it is on the timeline.
IntroDone == Len(state.beatTimes) > timeSig.beats

firstBeatTime == state.beatTimes[timeSig.beats + 1].perfTime

GridInstant(m, b, s) ==
    firstBeatTime + (m * timeSig.beats + b) * beatMs + s * subdivisionMs

EntryOf(table, pitch) == table[CHOOSE i \in 1..Len(table) : table[i].midi = pitch]

HasEntry(table, pitch) == \E i \in 1..Len(table) : table[i].midi = pitch

AllNotes == recordedNotes \o sessionNotesRef

\* C2: grid round-trip. With recording armed and the beats of the timeline
\* exactly one beat apart, a note-on whose compensated timestamp is the grid
\* instant of (measure, beat, subdivision), all three in range, is stored with
\* that measure, beat and subdivision and deviation 0, whether or not the
\* following beat is already on the timeline.
C2_GridRoundTrip ==
    [][EffectRuns /\ slotIsNoteOn /\ state.isRecording /\ IntroDone /\ EvenTimeline
         => \A m \in 0..(measures - 1), b \in 0..(timeSig.beats - 1),
               s \in 0..(subdivisionsPerBeat - 1) :
              slotTime = GridInstant(m, b, s)
                => /\ HasEntry(activeNotes', slotPitch)
                   /\ LET e == EntryOf(activeNotes', slotPitch)
                      IN  /\ e.mIdx = m /\ e.bIdx = b /\ e.sIdx = s
                          /\ e.diffMs = 0
                          /\ e.startTime = slotTime]_vars

\* A note-on was just stored on the grid, at a subdivision past the middle of
\* its beat, with the following beat already on the timeline.
C2_Witness ==
    /\ ~effectPending /\ slotIsNoteOn /\ state.isRecording /\ IntroDone
    /\ HasEntry(activeNotes, slotPitch)
    /\ LET e == EntryOf(activeNotes, slotPitch)
       IN  /\ e.startTime = slotTime
           /\ e.diffMs = 0
           /\ e.mIdx = 0
           /\ 2 * e.sIdx > subdivisionsPerBeat
           /\ slotTime = GridInstant(e.mIdx, e.bIdx, e.sIdx)
           /\ \E i \in 1..Len(state.beatTimes) :
                  state.beatTimes[i].perfTime > slotTime

C4_DurationFloor ==
    \A i \in 1..Len(AllNotes) : AllNotes[i].durationSixteenths >= 1

\* The latest note was produced from a hold of 0 ms or less.
C4_Witness ==
    /\ lastDurMs # <<>>
    /\ lastDurMs[1] <= 0
    /\ sessionNotesRef # <<>>
    /\ sessionNotesRef[Len(sessionNotesRef)].durationSixteenths = 1

ValidGridPosition(n) ==
    /\ n.measure \in 0..(measures - 1)
    /\ n.beatIndex \in 0..(timeSig.beats - 1)
    /\ n.sixteenthIndex \in 0..(subdivisionsPerBeat - 1)

\* C5: while the settings have not changed since the session started, every
\* RecordedNote in the recorded notes and in the calibration notes is a valid
\* grid position: measure in 0..measures - 1, beat in 0..beats - 1,
\* subdivision in 0..subdivisionsPerBeat - 1.
C5_ValidGridPositions ==
    ~cfgChanged => \A i \in 1..Len(AllNotes) : ValidGridPosition(AllNotes[i])

\* The step in which stop closes a calibration run.
CalibrationStops == isLatencyTesting /\ ~isLatencyTesting'

\* The notes of sessionNotesRef captured since Test Latency was clicked.
OwnNotes(session) == SubSeq(session, beforeCalib.notes + 1, Len(session))

RECURSIVE SumOfDeviations(_)
SumOfDeviations(notes) ==
    IF notes = <<>> THEN 0
    ELSE notes[1].diffMs + SumOfDeviations(SubSeq(notes, 2, Len(notes)))

\* round(mean(deviation)), halves rounded up as Math.round does.
RoundedMean(notes) == (2 * SumOfDeviations(notes) + Len(notes)) \div (2 * Len(notes))

\* C6: calibration result. When a calibration run stops with at least one
\* note captured during the run, the new latencyMs is round(mean(diffMs)) over
\* the notes produced during that run, the notes flushed by stop included.
C6_CalibrationResult ==
    [][CalibrationStops /\ OwnNotes(sessionNotesRef') # <<>>
         => latencyMs' = RoundedMean(OwnNotes(sessionNotesRef'))]_vars

\* C7: calibration failure. When a calibration run stops with no note
\* captured during the run, the calibration is reported as failed and
\* latencyMs is the constant in effect before Test Latency was clicked.
C7_CalibrationFailure ==
    [][CalibrationStops /\ OwnNotes(sessionNotesRef') = <<>>
         => /\ calibReport' = "failed"
            /\ latencyMs' = beforeCalib.latencyMs]_vars

\* C8: a note-off for a pitch without an entry in activeNotes changes nothing:
\* activeNotes, recordedNotes and sessionNotesRef stay as they are.
C8_NoteOffWithoutEntry ==
    [][EffectRuns /\ slotIsNoteOff /\ ~HasEntry(activeNotes, slotPitch)
         => UNCHANGED <<activeNotes, recordedNotes, sessionNotesRef>>]_vars

\* With recording armed, the first event of the run was a note-off, and the
\* effect has processed it.
C8_Witness ==
    /\ ~effectPending /\ slotIsNoteOff /\ state.isRecording
    /\ left.events = MaxEvents - 1
    /\ left.clicks = MaxClicks - 1
    /\ activeNotes = <<>> /\ AllNotes = <<>>

\* The note-on in the slot lies more than half a subdivision before the first
\* beat after the intro.
EarlyNoteOn ==
    /\ slotIsNoteOn /\ state.isRecording /\ IntroDone
    /\ 2 * (firstBeatTime - slotTime) > subdivisionMs

\* C9, as the specification states it: a note-on more than half a subdivision
\* before the first usable beat is discarded, no entry of activeNotes being
\* created or overwritten for its pitch.
C9_EarlyNoteOnDiscarded ==
    [][EffectRuns /\ EarlyNoteOn => activeNotes' = activeNotes]_vars

\* C9, as the code has it: such a note-on is stored, in a measure before
\* measure 0, and no RecordedNote ever comes of an entry of a negative
\* measure: neither the note-off nor the flush adds a note of measure < 0.
C9_EarlyNoteOnNeverRecorded ==
    [][/\ EffectRuns /\ EarlyNoteOn
           => /\ HasEntry(activeNotes', slotPitch)
              /\ EntryOf(activeNotes', slotPitch).mIdx < 0
              /\ EntryOf(activeNotes', slotPitch).startTime = slotTime
              /\ recordedNotes' = recordedNotes
              /\ sessionNotesRef' = sessionNotesRef
       /\ \A i \in 1..Len(recordedNotes') : recordedNotes'[i].measure >= 0
       /\ \A i \in 1..Len(sessionNotesRef') : sessionNotesRef'[i].measure >= 0]_vars

\* An early note-on has just been stored, in measure -1.
C9_Witness ==
    /\ ~effectPending /\ EarlyNoteOn
    /\ HasEntry(activeNotes, slotPitch)
    /\ EntryOf(activeNotes, slotPitch).mIdx = -1
    /\ EntryOf(activeNotes, slotPitch).startTime = slotTime

\* C10: intro gating. An entry of activeNotes is created or replaced only
\* when the timeline holds at least beats + 1 beats, and a note-on processed
\* while recording is not armed leaves activeNotes unchanged.
C10_IntroGating ==
    [][EffectRuns /\ slotIsNoteOn
         => /\ activeNotes' # activeNotes
                 => Len(state.beatTimes) >= timeSig.beats + 1
            /\ ~state.isRecording => activeNotes' = activeNotes]_vars

\* A note-on was processed during the intro of a running session, after the
\* last intro beat was put on the timeline and before recording was armed.
C10_Witness ==
    /\ ~effectPending /\ slotIsNoteOn /\ isPlaying /\ ~state.isRecording
    /\ Len(state.beatTimes) = timeSig.beats + 1
    /\ midiSignal.timeStamp = now
    /\ activeNotes = <<>>

-----------------------------------------------------------------------------
(* Properties of the session's life cycle *)

\* The beats a session of the current settings generates: the intro measure
\* and the measures.
SessionBeats == (measures + 1) * timeSig.beats

HasTimer(tms, kind) == \E t \in tms : t.kind = kind

\* The step schedules a deferred stop.
StopScheduled == \E t \in timers' : t.kind = "stop" /\ t \notin timers

\* The step is a click on Record or Test Latency.
ClickMade == left'.clicks # left.clicks

\* C11: natural session end. In a session whose settings stay as they were at
\* its start, the timeline never holds more than (measures + 1) * beats
\* beats; the deferred stop is scheduled when it holds exactly that many, no
\* deferred stop being scheduled already and no lookahead check staying
\* armed; and a session that ends without a click has generated exactly that
\* many beats.
C11_NaturalSessionEnd ==
    [][isPlaying /\ ~cfgChanged /\ ~cfgChanged'
         => /\ Len(state'.beatTimes) <= SessionBeats
            /\ StopScheduled => /\ Len(state'.beatTimes) = SessionBeats
                                /\ ~HasTimer(timers, "stop")
                                /\ ~HasTimer(timers', "tick")
            /\ (~isPlaying' /\ ~ClickMade)
                  => Len(state.beatTimes) = SessionBeats]_vars

\* The step runs stop(): from a click while playing, from the deferred stop,
\* or from the deferred onStart of testLatency that saw isPlaying = true.
StopRuns ==
    \/ isPlaying /\ ~isPlaying'
    \/ \E t \in timers : t \notin timers' /\ t.kind = "stop"
    \/ \E t \in timers : t \notin timers' /\ t.kind = "start" /\ t.playing

\* C12: stop is the cancellation point. When stop has run no lookahead check
\* is pending; from then until the next start no beat is appended to the
\* timeline; and the mean a calibration computes in stop is taken over the
\* calibration notes with the flushed notes already among them.
C12_StopCancelsThenFlushesThenAggregates ==
    [][/\ StopRuns => ~HasTimer(timers', "tick")
       /\ (~isPlaying /\ ~isPlaying') => state'.beatTimes = state.beatTimes
       /\ (CalibrationStops /\ sessionNotesRef' # <<>>)
             => latencyMs' = RoundedMean(sessionNotesRef')]_vars

\* The RecordedNote an entry gives when it is resolved at the off timestamp.
ResolvedAt(entry, offTime) ==
    LET held == offTime - entry.startTime
        rounded == (2 * held + subdivisionMs) \div (2 * subdivisionMs)
    IN  [midi |-> entry.midi, diffMs |-> entry.diffMs, measure |-> entry.mIdx,
         beatIndex |-> entry.bIdx, sixteenthIndex |-> entry.sIdx,
         durationSixteenths |-> IF rounded < 1 THEN 1 ELSE rounded]

\* One note for every entry of the table whose measure is in
\* 0..measures - 1, in the table's order, resolved at the off timestamp.
RECURSIVE FlushAt(_, _)
FlushAt(table, offTime) ==
    IF table = <<>> THEN <<>>
    ELSE (IF Head(table).mIdx \in 0..(measures - 1)
          THEN <<ResolvedAt(Head(table), offTime)>> ELSE <<>>)
             \o FlushAt(Tail(table), offTime)

\* C13: force flush. When stop runs, every entry of activeNotes whose measure
\* is in 0..measures - 1 gives exactly one RecordedNote, its duration computed
\* from the off timestamp now - latencyMs, and activeNotes is empty afterwards.
\* The notes go to sessionNotesRef, and to recordedNotes outside a calibration.
C13_ForceFlush ==
    [][StopRuns
         => /\ activeNotes' = <<>>
            /\ sessionNotesRef'
                  = sessionNotesRef \o FlushAt(activeNotes, now - latencyMs)
            /\ ~isLatencyTesting
                  => recordedNotes'
                        = recordedNotes \o FlushAt(activeNotes, now - latencyMs)]_vars

\* Every entry of the table after the step was in it before.
NoEntryCreated ==
    \A i \in 1..Len(activeNotes') :
        \E j \in 1..Len(activeNotes) : activeNotes[j] = activeNotes'[i]

\* C14: when stop has run recording is disarmed, and it stays disarmed until
\* the next session has started: no callback of the stopped session arms it
\* again, and a note-on processed between stop and the next start creates no
\* entry of activeNotes.
C14_DisarmedAfterStop ==
    [][/\ StopRuns => ~state'.isRecording
       /\ (~isPlaying /\ ~isPlaying') => ~state'.isRecording
       /\ (EffectRuns /\ ~isPlaying) => NoEntryCreated]_vars

\* C15: config immutability. After a setting was changed during a session,
\* the session goes on with the settings it started with: it generates no
\* more than (measures + 1) * beats beats of them, recording is armed when
\* beats + 1 beats of them are on the timeline, a note-on is stored at a beat
\* and a subdivision of their grid, and a note is recorded only in one of
\* their measures.
C15_ConfigImmutability ==
    [][isPlaying /\ isPlaying' /\ cfgChanged
         => /\ Len(state'.beatTimes)
                  <= (atStart.measures + 1) * atStart.timeSig.beats
            /\ (~state.isRecording /\ state'.isRecording)
                  => Len(state.beatTimes) = atStart.timeSig.beats + 1
            /\ (EffectRuns /\ slotIsNoteOn /\ activeNotes' # activeNotes)
                  => /\ EntryOf(activeNotes', slotPitch).bIdx
                           \in 0..(atStart.timeSig.beats - 1)
                     /\ EntryOf(activeNotes', slotPitch).sIdx
                           \in 0..((16 \div atStart.timeSig.value) - 1)
            /\ \A i \in (Len(sessionNotesRef) + 1)..Len(sessionNotesRef') :
                  sessionNotesRef'[i].measure \in 0..(atStart.measures - 1)]_vars

\* The step starts a session: onStart of a render in which isPlaying is
\* false, from a click on Record or deferred by testLatency.
SessionStarts ==
    \/ ~isPlaying /\ isPlaying'
    \/ \E t \in timers : t \notin timers' /\ t.kind = "start" /\ ~t.playing

\* C16: session isolation. When a session has started, from Record or from
\* Test Latency, the beat timeline, activeNotes and recordedNotes are empty.
C16_SessionIsolation ==
    [][SessionStarts
         => /\ state'.beatTimes = <<>>
            /\ activeNotes' = <<>>
            /\ recordedNotes' = <<>>]_vars

-----------------------------------------------------------------------------
(* Properties of the metadata and the grouping of buildTex *)

\* The notes handed to buildTex that start at position pos, in the order in
\* which they were recorded.
RecordedAt(pos) ==
    SelectSeq(asmNotes, LAMBDA n : getNotePos(asmCfg, n) = pos)

\* C17: the metadata sequence has exactly one entry per emitted token, in the
\* same order: entry i carries no hits iff token i is a Rest, and otherwise
\* the deviation read from it (that of hits[0]) is the deviation of the first
\* recorded note grouped into token i.
C17_MetadataAligned ==
    asmPc # "idle" =>
        /\ Len(texMetadata) = Len(tex)
        /\ \A i \in 1..Len(tex) :
              /\ (texMetadata[i].hits = <<>>) <=> (tex[i].kind = "Rest")
              /\ tex[i].kind # "Rest" =>
                    /\ RecordedAt(TokenStart(tex, i)) # <<>>
                    /\ texMetadata[i].hits[1].diffMs
                          = RecordedAt(TokenStart(tex, i))[1].diffMs

\* A finished call that wrote a rest and a chord of two keys played with
\* different deviations, the key recorded first not being the lower one.
C17_Witness ==
    /\ asmPc = "done"
    /\ \E i \in 1..Len(tex) : tex[i].kind = "Rest"
    /\ \E i \in 1..Len(tex) :
          /\ tex[i].kind = "Chord"
          /\ texMetadata[i].hits[1].diffMs # texMetadata[i].hits[2].diffMs
          /\ texMetadata[i].hits[1].midi > texMetadata[i].hits[2].midi

\* C19: chord grouping. All the recorded notes whose position equals the scan
\* cursor are written as one token, a Note when there is one and a Chord of
\* every one of their pitches when there are several, the pitches in the
\* order in which the notes were recorded; a rest is written only where no
\* note starts.
C19_ChordGrouping ==
    asmPc # "idle" =>
        \A i \in 1..Len(tex) :
            LET played == RecordedAt(TokenStart(tex, i))
            IN  /\ tex[i].kind = "Rest" <=> played = <<>>
                /\ tex[i].kind = "Note" <=> Len(played) = 1
                /\ tex[i].kind = "Chord" <=> Len(played) > 1
                /\ tex[i].pitches = pitchesOf(played)

\* A finished call that wrote a single note and a chord whose pitches are
\* not in ascending order, the higher key having been recorded first.
C19_Witness ==
    /\ asmPc = "done"
    /\ \E i \in 1..Len(tex) : tex[i].kind = "Note"
    /\ \E i \in 1..Len(tex) :
          /\ tex[i].kind = "Chord"
          /\ tex[i].pitches = <<64, 60>>

\* A note whose measure is not one of the measures of the score.
OutsideScore(n) == n.measure \notin 0..(asmCfg.measures - 1)

HandedOutsideNote == \E k \in 1..Len(asmNotes) : OutsideScore(asmNotes[k])

\* C20: defensive drop. When the notes handed to buildTex contain a note
\* whose measure is outside [0, measures), that note is grouped into no
\* token, and when buildTex returns the token durations inside every measure
\* still sum to measureSixteenths.
C20_DefensiveDrop ==
    (asmPc # "idle" /\ HandedOutsideNote) =>
        /\ \A i \in 1..Len(texMetadata) :
              \A j \in 1..Len(texMetadata[i].hits) :
                  ~OutsideScore(texMetadata[i].hits[j])
        /\ asmPc = "done" =>
              /\ Len(tex) = Len(texMetadata)
              /\ \A m \in 0..(asmCfg.measures - 1) :
                    SumDurIn(tex, 1, m * measureSixteenthsOf(asmCfg),
                             (m + 1) * measureSixteenthsOf(asmCfg))
                        = measureSixteenthsOf(asmCfg)

\* A finished call that was handed a note inside the score and a note past
\* its last measure: the first was written, and a rest was written at a
\* cursor from which the next note found was the one past the score.
C20_Witness ==
    /\ asmPc = "done"
    /\ HandedOutsideNote
    /\ \E i \in 1..Len(tex) : tex[i].kind = "Note"
    /\ \E i \in 1..Len(tex) :
          /\ tex[i].kind = "Rest"
          /\ nextNoteOf(asmCfg, asmNotes, TokenStart(tex, i)) # <<>>
          /\ OutsideScore(nextNoteOf(asmCfg, asmNotes, TokenStart(tex, i))[1])

-----------------------------------------------------------------------------
(* Properties of a session and its score *)

\* The note of the scenario: the key held from the first recorded beat for
\* eight sixteenths.
HalfNoteOnOne(pitch) ==
    [midi |-> pitch, diffMs |-> 0, measure |-> 0, beatIndex |-> 0,
     sixteenthIndex |-> 0, durationSixteenths |-> 8]

\* The effect runs on the release of a key that the quantizer took exactly at
\* the first recorded beat, eight sixteenths after the press, nothing having
\* been recorded before.
ReleasedAfterHalfNote ==
    /\ EffectRuns
    /\ slotIsNoteOff
    /\ recordedNotes = <<>>
    /\ MapHas(activeNotes, slotPitch)
    /\ Len(state.beatTimes) > timeSig.beats
    /\ EntryOf(activeNotes, slotPitch).startTime
          = state.beatTimes[timeSig.beats + 1].perfTime
    /\ (midiSignal.timeStamp - latencyMs) - EntryOf(activeNotes, slotPitch).startTime
          = 8 * sixteenthDurMsOf(tempo, timeSig.value)

\* buildTex has returned the score of that one note.
ScoreOfHalfNote == asmPc = "done" /\ asmNotes = <<HalfNoteOnOne(48)>>

ScoreWithCode(code) ==
    /\ Len(tex) = 2
    /\ Len(texMetadata) = 2
    /\ tex[1].kind = "Note" /\ tex[1].pitches = <<48>>
    /\ tex[1].dur = 8 /\ tex[1].rhythm = code
    /\ tex[2].kind = "Rest" /\ tex[2].dur = 8

\* C18: in 4/4 at tempo 120 with one measure and latency 0, a note-on taken
\* exactly at the first recorded beat and released 8 sixteenths later gives
\* the single recorded note {measure 0, beat 0, sixteenth 0, duration 8,
\* deviation 0}, and buildTex writes it as exactly two tokens: a Note of
\* snapped duration 8, written with the rhythm code DURATION_MAP gives a
\* duration of 8 sixteenths, '2' (a half note), then a Rest of duration 8.
C18_HalfNoteScenario ==
    [][/\ ReleasedAfterHalfNote
            => recordedNotes' = <<HalfNoteOnOne(slotPitch)>>
       /\ ScoreOfHalfNote' => ScoreWithCode("2")']_vars

\* C18 as stated: the Note token is written with the rhythm code '8'.
C18_AsStated ==
    [][/\ ReleasedAfterHalfNote
            => recordedNotes' = <<HalfNoteOnOne(slotPitch)>>
       /\ ScoreOfHalfNote' => ScoreWithCode("8")']_vars

\* The scenario has happened: the release stamped 8 sixteenths after the
\* first recorded beat resolved a note of that length, and buildTex has
\* returned the score of the session holding that note alone.
C18_Witness ==
    /\ ScoreOfHalfNote
    /\ recordedNotes = asmNotes
    /\ asmCfg = [beats |-> 4, value |-> 4, measures |-> 1]
    /\ tempo \in ScoreTempos /\ latencyMs = 0
    /\ lastDurMs = <<8 * sixteenthDurMsOf(tempo, timeSig.value)>>
    /\ midiSignal.source = "keyboard" /\ isNoteOffOf(midiSignal.data)
    /\ midiSignal.timeStamp
          = state.beatTimes[timeSig.beats + 1].perfTime
               + 8 * sixteenthDurMsOf(tempo, timeSig.value)

-----------------------------------------------------------------------------
(* Properties of the quantizer and of the timeline *)

\* The effect is about to run on a note-on with recording armed.
NoteOnToQuantize == effectPending /\ slotIsNoteOn /\ state.isRecording

\* The distance of the beat of sequence index idx from the slot's time.
DistOf(idx) == Abs(state.beatTimes[idx + 1].perfTime - slotTime)

PostIntro == timeSig.beats..(Len(state.beatTimes) - 1)

\* C21: nearest-beat search. For a note-on processed while recording is
\* armed, the target beat is a timeline entry of sequence index >=
\* beatsPerMeasure whose time has the least absolute distance to the
\* compensated timestamp: no intro beat is chosen, and of two beats equally
\* near the one of smaller index is chosen. A target is found whenever the
\* timeline holds a beat past the intro.
C21_NearestBeat ==
    NoteOnToQuantize =>
        LET target == bestBeatIdxOf(state.beatTimes, timeSig.beats, slotTime)
                         + timeSig.beats
        IN  IF PostIntro = {}
            THEN target = timeSig.beats - 1
            ELSE /\ target \in PostIntro
                 /\ \A idx \in PostIntro :
                       /\ DistOf(target) <= DistOf(idx)
                       /\ DistOf(target) = DistOf(idx) => target <= idx

\* A note-on about to be quantized lies midway between two beats past the
\* intro, both on the timeline, and nearer to them than to any other.
C21_Witness ==
    /\ NoteOnToQuantize
    /\ \E i, j \in PostIntro :
          /\ i < j
          /\ DistOf(i) = DistOf(j)
          /\ DistOf(i) > 0
          /\ \A k \in PostIntro : DistOf(i) <= DistOf(k)

\* The beat the search finds for the slot, and the slot's offset from it.
targetBeatTime ==
    state.beatTimes[bestBeatIdxOf(state.beatTimes, timeSig.beats, slotTime)
                       + timeSig.beats + 1].perfTime

rawOffsetMs == slotTime - targetBeatTime

\* C22: deviation residual. The deviation stored for a note-on is rawOffsetMs
\* minus (the rounded raw subdivision index * subdivisionMs); its magnitude
\* never exceeds half a subdivision, whatever borrow or carry was applied;
\* and when the beats of the timeline are one beat apart it is the signed
\* distance of the note-on from the grid line of the position stored.
C22_DeviationResidual ==
    [][(EffectRuns /\ slotIsNoteOn /\ state.isRecording /\ PostIntro # {})
         => /\ HasEntry(activeNotes', slotPitch)
            /\ LET e == EntryOf(activeNotes', slotPitch)
                   nearest == (2 * rawOffsetMs + subdivisionMs)
                                 \div (2 * subdivisionMs)
               IN  /\ e.startTime = slotTime
                   /\ e.diffMs = rawOffsetMs - nearest * subdivisionMs
                   /\ 2 * Abs(e.diffMs) <= subdivisionMs
                   /\ (EvenTimeline /\ e.mIdx >= 0)
                         => e.diffMs = slotTime
                               - GridInstant(e.mIdx, e.bIdx, e.sIdx)]_vars

\* A note-on was stored off the grid after a borrow: it was stamped before
\* the first recorded beat and its deviation is not 0.
C22_Witness ==
    /\ ~effectPending /\ slotIsNoteOn /\ state.isRecording /\ IntroDone
    /\ HasEntry(activeNotes, slotPitch)
    /\ LET e == EntryOf(activeNotes, slotPitch)
       IN  /\ e.startTime = slotTime
           /\ slotTime < firstBeatTime
           /\ e.diffMs # 0
           /\ e.mIdx < 0

-----------------------------------------------------------------------------
(* Properties of the sounding-notes table and of the classification *)

OnePerPitch(table) ==
    \A i, j \in 1..Len(table) : table[i].midi = table[j].midi => i = j

\* The note the resolver makes of entry e.
NoteOfEntry(e, dur) ==
    [midi |-> e.midi, diffMs |-> e.diffMs, measure |-> e.mIdx,
     beatIndex |-> e.bIdx, sixteenthIndex |-> e.sIdx, durationSixteenths |-> dur]

\* The effect runs on a note-on the quantizer matches to a beat, for a pitch
\* that has an entry.
RepeatedNoteOn ==
    /\ EffectRuns /\ slotIsNoteOn /\ state.isRecording /\ PostIntro # {}
    /\ HasEntry(activeNotes, slotPitch)

\* What a repeated note-on does: the entry of the pitch is replaced, in
\* place, by the entry of this note-on; nothing is recorded.
ReplacesEntry ==
    /\ Len(activeNotes') = Len(activeNotes)
    /\ OnePerPitch(activeNotes')
    /\ \A i \in 1..Len(activeNotes) :
          IF activeNotes[i].midi = slotPitch
          THEN /\ activeNotes'[i].midi = slotPitch
               /\ activeNotes'[i].startTime = slotTime
               /\ activeNotes'[i].diffMs
                     = rawOffsetMs - ((2 * rawOffsetMs + subdivisionMs)
                                         \div (2 * subdivisionMs)) * subdivisionMs
               /\ (EvenTimeline /\ activeNotes'[i].mIdx >= 0)
                     => GridInstant(activeNotes'[i].mIdx, activeNotes'[i].bIdx,
                                    activeNotes'[i].sIdx)
                           = slotTime - activeNotes'[i].diffMs
          ELSE activeNotes'[i] = activeNotes[i]
    /\ recordedNotes' = recordedNotes
    /\ sessionNotesRef' = sessionNotesRef

\* The notes added to a sequence of notes in this step.
Added(before, after) == SubSeq(after, Len(before) + 1, Len(after))

NoteOffOfEntry == EffectRuns /\ slotIsNoteOff /\ HasEntry(activeNotes, slotPitch)

\* C23: repeated note-on. A second matched note-on for a pitch that has an
\* entry replaces that entry (start time, position, deviation) and records
\* nothing for the entry replaced; the table holds at most one entry per
\* pitch; the note-off that follows removes the entry and records at most
\* one note, with the position and deviation of the entry it finds: exactly
\* one when the measure of that entry is in 0..measures-1, none otherwise.
C23_RepeatedNoteOn ==
    [][/\ OnePerPitch(activeNotes)
       /\ RepeatedNoteOn => ReplacesEntry
       /\ NoteOffOfEntry =>
             LET e == EntryOf(activeNotes, slotPitch)
                 new == Added(sessionNotesRef, sessionNotesRef')
             IN  /\ ~HasEntry(activeNotes', slotPitch)
                 /\ IF e.mIdx \in 0..(measures - 1)
                    THEN /\ Len(new) = 1
                         /\ new[1] = NoteOfEntry(e, new[1].durationSixteenths)
                    ELSE new = <<>>]_vars

\* C23 as stated: the note-off that follows records exactly one note.
C23_AsStated ==
    [][/\ OnePerPitch(activeNotes)
       /\ RepeatedNoteOn => ReplacesEntry
       /\ (NoteOffOfEntry /\ replaced # <<>> /\ replaced[1].midi = slotPitch) =>
             LET e == EntryOf(activeNotes, slotPitch)
                 new == Added(sessionNotesRef, sessionNotesRef')
             IN  /\ ~HasEntry(activeNotes', slotPitch)
                 /\ Len(new) = 1
                 /\ new[1] = NoteOfEntry(e, new[1].durationSixteenths)]_vars

\* A key was struck, struck again at another grid position while its entry
\* was in the table, and released: one note was recorded, at the position of
\* the second strike.
C23_Witness ==
    /\ ~effectPending /\ slotIsNoteOff
    /\ replaced # <<>>
    /\ replaced[1].midi = slotPitch
    /\ ~HasEntry(activeNotes, slotPitch)
    /\ Len(sessionNotesRef) = 1
    /\ lastDurMs # <<>>
    /\ LET n == sessionNotesRef[1]
       IN  /\ n.midi = slotPitch
           /\ slotTime - lastDurMs[1] > replaced[1].startTime
           /\ <<n.measure, n.beatIndex, n.sixteenthIndex>>
                 # <<replaced[1].mIdx, replaced[1].bIdx, replaced[1].sIdx>>

\* The message-type nibble of the slot's status byte, and its velocity.
slotNibble == midiSignal.data[1] \div 16

slotVelocity == midiSignal.data[3]

NothingRecorded ==
    recordedNotes' = recordedNotes /\ sessionNotesRef' = sessionNotesRef

\* C24: event classification. A raw message is a note-on iff its
\* message-type nibble is 0x9 and its velocity > 0, a note-off iff the
\* nibble is 0x8 or it is 0x9 with velocity 0, whatever the channel bits: a
\* note-on with recording armed and a beat to match is stored and records
\* nothing, a note-off removes the entry of its pitch, no message is both,
\* and a message that is neither leaves the table and the recorded notes
\* unchanged. No device message of status >= 240 reaches the slot.
C24_Classification ==
    [][/\ midiSignal.source = "midi" => midiSignal.data[1] < 240
       /\ midiSignal.source # "null" =>
             /\ isNoteOnOf(midiSignal.data)
                   <=> (slotNibble = 9 /\ slotVelocity > 0)
             /\ isNoteOffOf(midiSignal.data)
                   <=> (slotNibble = 8 \/ (slotNibble = 9 /\ slotVelocity = 0))
             /\ ~(isNoteOnOf(midiSignal.data) /\ isNoteOffOf(midiSignal.data))
       /\ (EffectRuns /\ slotNibble = 9 /\ slotVelocity > 0)
             => /\ NothingRecorded
                /\ (state.isRecording /\ PostIntro # {})
                      => /\ HasEntry(activeNotes', slotPitch)
                         /\ EntryOf(activeNotes', slotPitch).startTime = slotTime
       /\ (EffectRuns /\ (slotNibble = 8 \/ (slotNibble = 9 /\ slotVelocity = 0)))
             => /\ ~HasEntry(activeNotes', slotPitch)
                /\ (HasEntry(activeNotes, slotPitch)
                      /\ EntryOf(activeNotes, slotPitch).mIdx \in 0..(measures - 1))
                      => Len(sessionNotesRef') = Len(sessionNotesRef) + 1
       /\ (EffectRuns /\ slotNibble \notin {8, 9})
             => activeNotes' = activeNotes /\ NothingRecorded]_vars

\* A device sending on its second channel: its note-off (status 0x81, or
\* 0x91 with velocity 0) has resolved the entry its note-on had made, and
\* the note was recorded.
C24_Witness ==
    /\ ~effectPending
    /\ midiSignal.source = "midi"
    /\ midiSignal.data[1] \in {129, 145}
    /\ slotIsNoteOff
    /\ activeNotes = <<>>
    /\ Len(sessionNotesRef) = 1
    /\ sessionNotesRef[1].midi = slotPitch
    /\ lastDurMs # <<>>
    /\ lastDurMs[1] > 0
    /\ inputs = ChannelDevice

-----------------------------------------------------------------------------
(* Properties of the token durations of buildTex *)

StandardDurations == {16, 8, 4, 2, 1}

\* The largest standard duration that does not exceed limit, for limit >= 1.
LargestFitting(limit) ==
    CHOOSE d \in StandardDurations :
        /\ d <= limit
        /\ \A c \in StandardDurations : c <= limit => c <= d

\* The longest duration among the notes handed to buildTex that start at pos.
LongestAt(pos) ==
    CHOOSE d \in {RecordedAt(pos)[k].durationSixteenths :
                     k \in 1..Len(RecordedAt(pos))} :
        \A k \in 1..Len(RecordedAt(pos)) :
            RecordedAt(pos)[k].durationSixteenths <= d

LeftInMeasure(pos) ==
    measureSixteenthsOf(asmCfg) - (pos % measureSixteenthsOf(asmCfg))

\* C25: Note/Chord token duration. The duration written for a Note or Chord
\* token at cursor pos is the largest of 16, 8, 4, 2, 1 that does not exceed
\* min(the longest duration of the grouped notes, measureSixteenths - (pos
\* mod measureSixteenths)), and the cursor advances by exactly that value.
C25_NoteTokenDuration ==
    asmPc # "idle" =>
        /\ currentSixteenth = TokenStart(tex, Len(tex) + 1)
        /\ \A i \in 1..Len(tex) :
              tex[i].kind # "Rest" =>
                  LET pos == TokenStart(tex, i)
                  IN  /\ RecordedAt(pos) # <<>>
                      /\ tex[i].dur
                            = LargestFitting(Min(LongestAt(pos),
                                                 LeftInMeasure(pos)))

\* A finished call that wrote a chord of notes of different durations, the
\* longest not recorded first and not a standard duration: the token has
\* the standard duration below it.
C25_Witness ==
    /\ asmPc = "done"
    /\ \E i \in 1..Len(tex) :
          /\ tex[i].kind = "Chord"
          /\ texMetadata[i].hits[1].durationSixteenths
                < texMetadata[i].hits[2].durationSixteenths
          /\ texMetadata[i].hits[2].durationSixteenths
                <= LeftInMeasure(TokenStart(tex, i))
          /\ tex[i].dur > texMetadata[i].hits[1].durationSixteenths
          /\ tex[i].dur < texMetadata[i].hits[2].durationSixteenths

\* The positions after pos at which a note handed to buildTex starts.
LaterStarts(pos) ==
    {getNotePos(asmCfg, asmNotes[k]) : k \in 1..Len(asmNotes)}
        \cap {p \in 0..(totalSixteenthsOf(asmCfg) + measureSixteenthsOf(asmCfg)) :
                 p > pos}

\* The distance from pos to the start of the next note; with no next note,
\* what is left of the measure.
DistanceToNext(pos) ==
    IF LaterStarts(pos) = {} THEN LeftInMeasure(pos)
    ELSE (CHOOSE p \in LaterStarts(pos) : \A q \in LaterStarts(pos) : p <= q)
            - pos

\* C26: Rest token duration. Where no note starts at cursor pos exactly one
\* Rest token is written, of the largest of 16, 8, 4, 2, 1 that does not
\* exceed min(what is left of the measure, the distance from pos to the
\* start of the next note): a Rest never covers the start of a later note
\* and never crosses a bar line.
C26_RestTokenDuration ==
    asmPc # "idle" =>
        /\ currentSixteenth = TokenStart(tex, Len(tex) + 1)
        /\ \A i \in 1..Len(tex) :
              LET pos == TokenStart(tex, i)
              IN  /\ RecordedAt(pos) = <<>> <=> tex[i].kind = "Rest"
                  /\ tex[i].kind = "Rest" =>
                        /\ tex[i].dur
                              = LargestFitting(Min(LeftInMeasure(pos),
                                                   DistanceToNext(pos)))
                        /\ \A p \in LaterStarts(pos) : p >= pos + tex[i].dur
                        /\ tex[i].dur <= LeftInMeasure(pos)

\* A finished call that wrote a note preceded by rests: the gap before the
\* note, shorter than what was left of the measure and not a standard
\* duration, was filled by a rest shorter than the gap and then another.
C26_Witness ==
    /\ asmPc = "done"
    /\ \E i \in 1..(Len(tex) - 2) :
          /\ tex[i].kind = "Rest"
          /\ DistanceToNext(TokenStart(tex, i)) < LeftInMeasure(TokenStart(tex, i))
          /\ tex[i].dur < DistanceToNext(TokenStart(tex, i))
          /\ tex[i + 1].kind = "Rest"
          /\ tex[i + 2].kind # "Rest"

-----------------------------------------------------------------------------
(* Properties of the beat timeline *)

\* C27: at every point of a session whose settings were not changed since
\* it started, the number of entries of the beat timeline is at most
\* (measures + 1) * beatsPerMeasure: the measures of the score and the intro
\* measure before them.
C27_TimelineBound ==
    (isPlaying /\ ~cfgChanged)
        => Len(state.beatTimes) <= (measures + 1) * timeSig.beats

\* C27 as stated: the timeline has at most measures * beatsPerMeasure entries.
C27_AsStated ==
    (isPlaying /\ ~cfgChanged)
        => Len(state.beatTimes) <= measures * timeSig.beats

\* A session with its settings unchanged has put its last beat on the
\* timeline and scheduled its stop.
C27_Witness ==
    /\ isPlaying /\ ~cfgChanged
    /\ Len(state.beatTimes) = (measures + 1) * timeSig.beats
    /\ HasTimer(timers, "stop")
    /\ ~HasTimer(timers, "tick")

-----------------------------------------------------------------------------
(* Properties of the calibration *)

\* C29: during a calibration run no latency compensation is applied. The
\* start time stored for a note-on is the raw timestamp of the event, the
\* duration of a note resolved by a note-off is counted to the raw timestamp
\* of the note-off, and the flush of stop resolves the entries at the raw
\* time of the stop, whatever the constant was before Test Latency was
\* clicked.
C29_NoCompensationInCalibration ==
    [][isLatencyTesting
         => /\ (EffectRuns /\ slotIsNoteOn /\ activeNotes' # activeNotes)
                  => EntryOf(activeNotes', slotPitch).startTime
                        = midiSignal.timeStamp
            /\ (EffectRuns /\ slotIsNoteOff /\ HasEntry(activeNotes, slotPitch))
                  => Added(sessionNotesRef, sessionNotesRef')
                        = FlushAt(<<EntryOf(activeNotes, slotPitch)>>,
                                  midiSignal.timeStamp)
            /\ StopRuns
                  => Added(sessionNotesRef, sessionNotesRef')
                        = FlushAt(activeNotes, now)]_vars

\* The tempo of the App before any tempo button is clicked.
DefaultTempo == 100

\* A step of testLatency: it defers an onStart.
TestLatencyClicked == \E t \in timers' \ timers : t.kind = "start"

\* A session is running while the calibration flag is set.
CalibrationRuns == isLatencyTesting /\ isPlaying

\* C30: the session run by Test Latency has a configuration that does not
\* depend on the settings before the click: testLatency leaves the settings
\* at 4/4, and the beats of the session are spaced as those of the
\* calibration started from the default tempo, whatever the tempo was when
\* Test Latency was clicked.
C30_CalibrationConfiguration ==
    [][/\ TestLatencyClicked
            => timeSig' = [beats |-> TestBeats, value |-> TestValue]
       /\ CalibrationRuns'
            => \A i \in 2..Len(state'.beatTimes) :
                  state'.beatTimes[i].audioTime
                     - state'.beatTimes[i - 1].audioTime
                        = MsPerMinute \div DefaultTempo]_vars

\* The onStart that testLatency deferred runs.
DeferredStartRuns == \E t \in timers \ timers' : t.kind = "start"

\* C31: the constant of a calibration comes from the calibration's own
\* session. The onStart deferred by Test Latency starts a fresh session, with
\* no note in sessionNotesRef, also when a session was active at the click,
\* and the constant written when the calibration stops is the rounded mean
\* of the deviations of the notes captured since that click only.
C31_CalibrationOwnSession ==
    [][/\ DeferredStartRuns
            => /\ isPlaying'
               /\ isLatencyTesting'
               /\ sessionNotesRef' = <<>>
       /\ (CalibrationStops /\ calibReport' = "complete")
            => /\ OwnNotes(sessionNotesRef') # <<>>
               /\ latencyMs' = RoundedMean(OwnNotes(sessionNotesRef'))]_vars

-----------------------------------------------------------------------------
(* Properties of the scan of buildTex *)

\* The tokens whose source notes hold the recorded note n.
TokensOf(n) ==
    {i \in 1..Len(texMetadata) :
        \E j \in 1..Len(texMetadata[i].hits) : texMetadata[i].hits[j] = n}

\* C32: no recorded note is lost. When buildTex returns, every note it was
\* handed whose position lies in [0, measures * sixteenths per measure) is
\* among the source notes of exactly one Note or Chord token, also when the
\* token of an earlier note extends over the slot where the note starts.
C32_NoNoteLost ==
    asmPc = "done" =>
        \A k \in 1..Len(asmNotes) :
            getNotePos(asmCfg, asmNotes[k]) \in 0..(totalSixteenthsOf(asmCfg) - 1)
               => /\ Cardinality(TokensOf(asmNotes[k])) = 1
                  /\ \A i \in TokensOf(asmNotes[k]) : tex[i].kind # "Rest"

-----------------------------------------------------------------------------
(* Properties of the callbacks across sessions *)

\* The instant at which the latest session started: onStart put the first
\* beat FirstBeatMs after it.
SessionStartedAt ==
    IF state.beatTimes = <<>>
    THEN state.nextNoteTime - FirstBeatMs
    ELSE state.beatTimes[1].audioTime - FirstBeatMs

\* The instant at which tick scheduled the deferred stop t.
ScheduledAt(t) == t.due - StopDelayMs

\* C33: a session is terminated only by a stop that belongs to it. When a
\* deferred stop runs while a session is playing, it was scheduled by the
\* lookahead check of that session, that is after that session started, and
\* not at the end of an earlier one.
C33_StopBelongsToSession ==
    [][\A t \in timers \ timers' :
          (t.kind = "stop" /\ isPlaying)
             => ScheduledAt(t) > SessionStartedAt]_vars

\* The lookahead checks that are pending: one per chain of tick callbacks.
ArmedChains(tms) == {t \in tms : t.kind = "tick"}

\* C34: at most one lookahead-check chain is armed at any time. No step, a
\* start from Record or the deferred start of Test Latency included, leaves
\* two lookahead checks pending, and when stop has run none is pending.
C34_SingleChain ==
    [][/\ Cardinality(ArmedChains(timers')) <= 1
       /\ StopRuns => ArmedChains(timers') = {}]_vars

-----------------------------------------------------------------------------
(* Properties of the event slot *)

\* The step in which a listener puts a raw note event into the slot (a
\* filtered system message never reaches the slot).
EventDelivered == left'.events # left.events /\ onsets'.slot # onsets.slot

\* C35: every raw note event is processed by the effect exactly once. An
\* event is put into the slot only when the effect has run on the event
\* before it, so that none is overwritten unprocessed, and the effect
\* becomes due only by a delivery: a change of the settings, of the latency
\* constant or a stop never makes it run on the slot's event again.
C35_EachEventOnce ==
    [][/\ EventDelivered => ~effectPending
       /\ (effectPending' /\ ~effectPending) => EventDelivered]_vars

\* C36: each matched note-on yields at most one recorded note. Over the
\* whole run no delivered event is the origin of two recorded notes: the
\* entry made from it is resolved by a note-off or by the flush of stop, not
\* by both and not twice.
C36_OneNotePerNoteOn ==
    \A i, j \in 1..Len(onsets.yielded) :
        i # j => onsets.yielded[i] # onsets.yielded[j]

-----------------------------------------------------------------------------
(* Progress of a session *)

\* The session was stopped before its timeline got past the intro.
StoppedInIntro == ~isPlaying /\ Len(state.beatTimes) <= timeSig.beats

\* The run has used up its clock steps.
RunEnded == left.steps = 0

\* C37: arming liveness. Every session that is not stopped during its intro
\* gets recording armed: from a state in which a session is playing, the run
\* reaches a state in which recording is armed, or the session was stopped
\* during the intro.
C37_ArmingLiveness ==
    isPlaying ~> (state.isRecording \/ StoppedInIntro \/ RunEnded)

-----------------------------------------------------------------------------
(* Termination of buildTex *)

\* measures * subdivisions per measure, from the configuration.
ScanLength == asmCfg.measures * asmCfg.beats * (16 \div asmCfg.value)

\* C38: the assembler terminates. Every pass of the scan loop writes one
\* token and moves the cursor forward by 16, 8, 4, 2 or 1; the tokens never
\* outnumber the subdivisions of the score; the call returns, and when it
\* does the cursor is at the end of the last measure.
C38_ScanTerminates ==
    /\ [][(asmPc = "scan" /\ asmPc' = "scan")
             => /\ currentSixteenth' - currentSixteenth \in StandardDurations
                /\ Len(tex') = Len(tex) + 1]_vars
    /\ [](asmPc # "idle"
             => /\ Len(tex) <= ScanLength
                /\ asmPc = "done" => currentSixteenth = ScanLength)
    /\ <>(asmPc = "done")

\* A call that returned from a score of more than one measure, having
\* written notes and rests, one token of a single subdivision and one longer.
C38_Witness ==
    /\ asmPc = "done"
    /\ asmCfg.measures > 1
    /\ currentSixteenth = ScanLength
    /\ \E i \in 1..Len(tex) : tex[i].kind = "Rest" /\ tex[i].dur > 1
    /\ \E i \in 1..Len(tex) : tex[i].kind = "Note" /\ tex[i].dur = 1

-----------------------------------------------------------------------------
(* Properties of the end of a session *)

\* The session that is playing runs by itself: its settings are those it
\* started with, one chain of lookahead checks drives it, every deferred stop
\* that is pending is its own, and no deferred start is pending.
RunsToItsEnd ==
    /\ isPlaying /\ ~cfgChanged
    /\ Cardinality(ArmedChains(timers)) <= 1
    /\ ~HasTimer(timers, "start")
    /\ \A t \in timers : t.kind = "stop" => ScheduledAt(t) > SessionStartedAt

\* The end of the last measure.
LastMeasureEnd == GridInstant(measures, 0, 0)

\* The notes of a sequence made of entry e.
MadeOf(e, notes) ==
    {i \in 1..Len(notes) :
        notes[i] = NoteOfEntry(e, notes[i].durationSixteenths)}

\* C39: the end of a session that runs to its natural end. The deferred stop
\* is scheduled when the whole timeline is generated and the clock is within
\* the lookahead window of the end of the last measure; until the stop runs
\* recording stays armed once it has been armed, so a note-on whose
\* compensated timestamp is a grid instant of the last measure is stored at
\* that measure, beat and subdivision; and an entry of the last measure is
\* recorded by the note-off that resolves it and by the flush of stop.
C39_LastMeasureRecorded ==
    [][/\ (RunsToItsEnd /\ StopScheduled)
            => /\ Len(state'.beatTimes) = SessionBeats
               /\ now + LookaheadMs > LastMeasureEnd
       /\ (RunsToItsEnd /\ RunsToItsEnd' /\ state.isRecording)
            => state'.isRecording
       /\ (RunsToItsEnd /\ EffectRuns /\ slotIsNoteOn /\ IntroDone
             /\ now > firstBeatTime)
            => \A b \in 0..(timeSig.beats - 1), s \in 0..(subdivisionsPerBeat - 1) :
                  slotTime = GridInstant(measures - 1, b, s)
                     => /\ HasEntry(activeNotes', slotPitch)
                        /\ LET e == EntryOf(activeNotes', slotPitch)
                           IN  e.mIdx = measures - 1 /\ e.bIdx = b /\ e.sIdx = s
       /\ (NoteOffOfEntry /\ EntryOf(activeNotes, slotPitch).mIdx = measures - 1)
            => MadeOf(EntryOf(activeNotes, slotPitch),
                      Added(sessionNotesRef, sessionNotesRef')) # {}
       /\ StopRuns
            => \A k \in 1..Len(activeNotes) :
                  activeNotes[k].mIdx = measures - 1
                     => MadeOf(activeNotes[k],
                               Added(sessionNotesRef, sessionNotesRef')) # {}]_vars

\* A session of two measures has ended by its deferred stop; a key pressed
\* on the last subdivision of the last measure and still held was flushed by
\* the stop and is recorded in that measure.
C39_Witness ==
    /\ ~isPlaying /\ ~cfgChanged /\ measures = 2
    /\ left.clicks = 0 /\ timers = {}
    /\ Len(state.beatTimes) = SessionBeats
    /\ slotIsNoteOn
    /\ Len(recordedNotes) = 1
    /\ recordedNotes[1].measure = measures - 1
    /\ recordedNotes[1].sixteenthIndex = subdivisionsPerBeat - 1
    /\ recordedNotes[1].diffMs = 0

====
